---- MODULE Spec2Model ----
(***************************************************************************)
(* A model of the Monkey bytecode compiler (monkey/compiler.py,            *)
(* monkey/symbol_table.py, monkey/code.py) and virtual machine             *)
(* (monkey/vm.py, monkey/frame.py).                                        *)
(*                                                                         *)
(* A program (an AST, as the parser builds it) is compiled by Compile and  *)
(* the resulting bytecode is executed by the virtual machine, one          *)
(* iteration of VirtualMachine.run's loop per step.                        *)
(***************************************************************************)
EXTENDS Integers, Sequences, FiniteSets, TLC

VARIABLES
    prog,          \* index of the program under execution (into Programs)
    compile_err,   \* what Compiler.compile returned: NoErr or a CompilerError
    constants,     \* VirtualMachine.constants
    stack,         \* VirtualMachine.stack
    sp,            \* VirtualMachine.sp
    globals,       \* VirtualMachine.globals (the slots assigned so far)
    frames,        \* VirtualMachine.frames
    frames_index,  \* VirtualMachine.frames_index
    status,        \* where VirtualMachine.run is: running, returned or raised
    err,           \* what run returned (NoErr, a VmError) or the exception raised
    calls,         \* history: one record per frame pushed by call_function
    last,          \* history: the instruction the latest step executed
    compiler,      \* the Compiler that compiles the program
    symtabs,       \* a chain of SymbolTables under test (symtabs[1] the root)
    program,       \* the program given to the compiler or to the evaluator
    evaluator,     \* the Evaluator, with what it returned for the program
    encoding       \* an instruction under test: what make and read_operands gave

vars == <<prog, compile_err, constants, stack, sp, globals, frames,
          frames_index, status, err, calls, last, compiler, symtabs, program,
                   evaluator, encoding>>

\* the variables of the virtual machine
vm_vars == <<constants, stack, sp, globals, frames, frames_index, err, calls, last>>

(***************************************************************************)
(* monkey/vm.py: sizes                                                     *)
(***************************************************************************)
STACK_SIZE == 2048
GLOBALS_SIZE == 65536
MAX_FRAMES == 1024

(***************************************************************************)
(* monkey/object.py: the runtime values.  PyNone is Python's None, the     *)
(* content of a stack, globals or frames slot never assigned.              *)
(***************************************************************************)
PyNone == [t |-> "None"]
IntegerObject(v) == [t |-> "INTEGER", iv |-> v]
BooleanObject(b) == [t |-> "BOOLEAN", bv |-> b]
StringObject(s) == [t |-> "STRING", sv |-> s]
NullObject == [t |-> "NULL"]
ArrayObject(es) == [t |-> "ARRAY", elements |-> es]
HashObject(ps) == [t |-> "HASH", pairs |-> ps]
CompiledFunction(ins, nl, np) ==
    [t |-> "COMPILED_FUNCTION", instructions |-> ins, num_locals |-> nl,
     num_parameters |-> np]
\* a BuiltinObject holds a function of monkey/builtins.py, here by its name
BuiltinObject(fn) == [t |-> "BUILTIN", builtin |-> fn]

TRUE_ == BooleanObject(TRUE)
FALSE_ == BooleanObject(FALSE)
NULL == NullObject

\* The classes that define __hash__; a dataclass without one is unhashable.
Hashable(o) == o.t \in {"INTEGER", "BOOLEAN", "STRING", "None"}

(***************************************************************************)
(* Results of a call: no error, a returned error, or a raised exception.   *)
(***************************************************************************)
NoErr == [msg |-> "None"]
VmError(m) == [msg |-> m]
WrongArgsError(want, got) ==
    [msg |-> "wrong number of arguments", want |-> want, got |-> got]
CompilerError(m, what) == [msg |-> m, what |-> what]
Raised(kind, where) == [exc |-> kind, where |-> where]
IsRaised(e) == "exc" \in DOMAIN e

(***************************************************************************)
(* monkey/code.py                                                          *)
(***************************************************************************)
Opcode ==
    [OpConstant |-> 1, OpPop |-> 2, OpAdd |-> 3, OpSub |-> 4, OpMul |-> 5,
     OpDiv |-> 6, OpTrue |-> 7, OpFalse |-> 8, OpEqual |-> 9,
     OpNotEqual |-> 10, OpGreaterThan |-> 11, OpMinus |-> 12, OpBang |-> 13,
     OpJumpNotTruthy |-> 14, OpJump |-> 15, OpNull |-> 16,
     OpSetGlobal |-> 17, OpGetGlobal |-> 18, OpArray |-> 19, OpHash |-> 20,
     OpIndex |-> 21, OpCall |-> 22, OpReturnValue |-> 23, OpReturn |-> 24,
     OpSetLocal |-> 25, OpGetLocal |-> 26, OpGetBuiltin |-> 27,
     OpGetFree |-> 28, OpClosure |-> 29, OpCurrentClosure |-> 30]

operand_widths ==
    [OpConstant |-> <<2>>, OpPop |-> <<>>, OpAdd |-> <<>>, OpSub |-> <<>>,
     OpMul |-> <<>>, OpDiv |-> <<>>, OpTrue |-> <<>>, OpFalse |-> <<>>,
     OpEqual |-> <<>>, OpNotEqual |-> <<>>, OpGreaterThan |-> <<>>,
     OpMinus |-> <<>>, OpBang |-> <<>>, OpJumpNotTruthy |-> <<2>>,
     OpJump |-> <<2>>, OpNull |-> <<>>, OpSetGlobal |-> <<2>>,
     OpGetGlobal |-> <<2>>, OpArray |-> <<2>>, OpHash |-> <<2>>,
     OpIndex |-> <<>>, OpCall |-> <<1>>, OpReturnValue |-> <<>>,
     OpReturn |-> <<>>, OpSetLocal |-> <<1>>, OpGetLocal |-> <<1>>,
     OpGetBuiltin |-> <<1>>, OpGetFree |-> <<1>>, OpClosure |-> <<2, 1>>,
     OpCurrentClosure |-> <<>>]

\* int.to_bytes(width, 'little'): the least significant byte first
to_bytes_little_endian(o, width) ==
    IF width = 1 THEN <<o % 256>> ELSE <<o % 256, (o \div 256) % 256>>

\* int.to_bytes(width, 'big'), for 0 <= o < 256^width
to_bytes(o, width) ==
    IF width = 1 THEN <<o % 256>> ELSE <<(o \div 256) % 256, o % 256>>

\* int.from_bytes(bs, 'big') of a slice of zero, one or two bytes
from_bytes(bs) ==
    IF Len(bs) = 0 THEN 0
    ELSE IF Len(bs) = 1 THEN bs[1]
    ELSE bs[1] * 256 + bs[2]

\* make(op, *operands): the opcode byte, then each operand in its width
make(op, operands) ==
    LET enc[i \in 0..Len(operands)] ==
            IF i = 0 THEN <<Opcode[op]>>
            ELSE enc[i - 1] \o to_bytes(operands[i], operand_widths[op][i])
    IN enc[Len(operands)]

\* The Python slice s[a:b] of a zero-based sequence, for 0 <= a <= b
Slice(s, a, b) ==
    LET hi == IF b < Len(s) THEN b ELSE Len(s)
    IN IF a >= hi THEN <<>> ELSE SubSeq(s, a + 1, hi)

\* Python's index into a list of length n: negative indexes count from the
\* end; -1 stands for an index out of range (IndexError).
PyIndex(i, n) ==
    IF 0 <= i /\ i < n THEN i
    ELSE IF i < 0 /\ i >= -n THEN i + n
    ELSE -1

(***************************************************************************)
(* monkey/frame.py                                                         *)
(***************************************************************************)
Frame(fn, base_pointer) == [fn |-> fn, ip |-> -1, base_pointer |-> base_pointer]

(***************************************************************************)
(* monkey/vm.py: the methods of VirtualMachine.  A method takes the        *)
(* machine (self) as a record and gives the machine it leaves; self.err    *)
(* is what the method returned or raised.  Bind runs the next statement    *)
(* only when the previous one neither returned an error nor raised.        *)
(***************************************************************************)
Fail(self, e) == [self EXCEPT !.err = e]
Bind(self, F(_)) == IF self.err = NoErr THEN F(self) ELSE self

\* stack[i] as Python reads it (PyNone stands in when i is out of range)
StackAt(self, i) ==
    IF PyIndex(i, STACK_SIZE) = -1 THEN PyNone
    ELSE self.stack[PyIndex(i, STACK_SIZE)]

\* stack[i] = o
StackStore(self, i, o) ==
    IF PyIndex(i, STACK_SIZE) = -1 THEN Fail(self, Raised("IndexError", "stack"))
    ELSE [self EXCEPT !.stack[PyIndex(i, STACK_SIZE)] = o]

\* the frames slot current_frame reads
CurrentSlot(self) == PyIndex(self.frames_index - 1, MAX_FRAMES)
current_frame(self) == self.frames[CurrentSlot(self)]

\* current_frame.ip = v
SetIp(self, v) == [self EXCEPT !.frames[CurrentSlot(self)].ip = v]
AddIp(self, d) == SetIp(self, current_frame(self).ip + d)

push_overflows(self) == self.sp >= STACK_SIZE

push(self, o) ==
    IF push_overflows(self) THEN Fail(self, VmError("stack overflow"))
    ELSE Bind(StackStore(self, self.sp, o),
              LAMBDA s: [s EXCEPT !.sp = @ + 1])

\* pop: the value it returns, and the machine it leaves
Top(self) == StackAt(self, self.sp - 1)
pop(self) ==
    IF PyIndex(self.sp - 1, STACK_SIZE) = -1
    THEN Fail(self, Raised("IndexError", "stack"))
    ELSE [self EXCEPT !.sp = @ - 1]

last_popped_stack_elem(self) == StackAt(self, self.sp)

push_frame(self, f) ==
    IF PyIndex(self.frames_index, MAX_FRAMES) = -1
    THEN Fail(self, Raised("IndexError", "frames"))
    ELSE [self EXCEPT !.frames[PyIndex(self.frames_index, MAX_FRAMES)] = f,
                      !.frames_index = @ + 1]

\* pop_frame: the frame it returns (PyNone from a slot never assigned)
popped_frame(self) ==
    IF PyIndex(self.frames_index - 1, MAX_FRAMES) = -1 THEN PyNone
    ELSE self.frames[PyIndex(self.frames_index - 1, MAX_FRAMES)]
pop_frame(self) ==
    IF PyIndex(self.frames_index - 1, MAX_FRAMES) = -1
    THEN Fail([self EXCEPT !.frames_index = @ - 1], Raised("IndexError", "frames"))
    ELSE [self EXCEPT !.frames_index = @ - 1]

native_bool_to_boolean_object(b) == IF b THEN TRUE_ ELSE FALSE_

\* is_truthy with the integer 0 taken as false, as C's `if` does: the
\* branching property C10 must tell it from is_truthy
is_truthy_zero_is_false(obj) ==
    IF obj.t = "BOOLEAN" THEN obj.bv
    ELSE IF obj = NULL THEN FALSE
    ELSE IF obj.t = "INTEGER" THEN obj.iv # 0
    ELSE TRUE

is_truthy(obj) ==
    IF obj.t = "BOOLEAN" THEN obj.bv
    ELSE IF obj = NULL THEN FALSE
    ELSE TRUE

\* the bang operator without its NULL branch: the truthiness law C9 must
\* tell it from bang_result
bang_result_without_null(operand) ==
    IF operand = TRUE_ THEN FALSE_
    ELSE IF operand = FALSE_ THEN TRUE_
    ELSE FALSE_

\* the value execute_bang_operator pushes for the operand it popped
bang_result(operand) ==
    IF operand = TRUE_ THEN FALSE_
    ELSE IF operand = FALSE_ THEN TRUE_
    ELSE IF operand = NULL THEN TRUE_
    ELSE FALSE_

execute_bang_operator(self) ==
    Bind(pop(self), LAMBDA s: push(s, bang_result(Top(self))))

execute_minus_operator(self) ==
    Bind(pop(self), LAMBDA s:
        IF Top(self).t # "INTEGER"
        THEN Fail(s, Raised("AttributeError", "type"))
        ELSE push(s, IntegerObject(-Top(self).iv)))

\* Python's //: the floor of the quotient
PyFloorDiv(a, b) == IF b > 0 THEN a \div b ELSE (-a) \div (-b)

execute_binary_integer_operation(self, op, left, right) ==
    IF op = Opcode.OpAdd THEN push(self, IntegerObject(left.iv + right.iv))
    ELSE IF op = Opcode.OpSub THEN push(self, IntegerObject(left.iv - right.iv))
    ELSE IF op = Opcode.OpMul THEN push(self, IntegerObject(left.iv * right.iv))
    ELSE IF op = Opcode.OpDiv
    THEN IF right.iv = 0 THEN Fail(self, Raised("ZeroDivisionError", "//"))
         ELSE push(self, IntegerObject(PyFloorDiv(left.iv, right.iv)))
    ELSE Fail(self, VmError("unknown integer operator"))

execute_binary_string_operation(self, op, left, right) ==
    IF op = Opcode.OpAdd THEN push(self, StringObject(left.sv \o right.sv))
    ELSE Fail(self, VmError("unknown string operator"))

execute_binary_operation(self, op) ==
    LET right == Top(self)
        s1 == pop(self)
        left == Top(s1)
    IN Bind(s1, LAMBDA a: Bind(pop(a), LAMBDA s:
        IF left.t = "INTEGER" /\ right.t = "INTEGER"
        THEN execute_binary_integer_operation(s, op, left, right)
        ELSE IF left.t = "STRING" /\ right.t = "STRING"
        THEN execute_binary_string_operation(s, op, left, right)
        ELSE Fail(s, Raised("AttributeError", "type"))))

execute_integer_comparison(self, op, left, right) ==
    IF op = Opcode.OpEqual
    THEN push(self, native_bool_to_boolean_object(left.iv = right.iv))
    ELSE IF op = Opcode.OpNotEqual
    THEN push(self, native_bool_to_boolean_object(left.iv # right.iv))
    ELSE IF op = Opcode.OpGreaterThan
    THEN push(self, native_bool_to_boolean_object(left.iv > right.iv))
    ELSE Fail(self, VmError("unknown integer comparison operator"))

execute_comparison(self, op) ==
    LET right == Top(self)
        s1 == pop(self)
        left == Top(s1)
    IN Bind(s1, LAMBDA a: Bind(pop(a), LAMBDA s:
        IF left.t = "INTEGER" /\ right.t = "INTEGER"
        THEN execute_integer_comparison(s, op, left, right)
        ELSE IF op = Opcode.OpEqual
        THEN push(s, native_bool_to_boolean_object(left = right))
        ELSE IF op = Opcode.OpNotEqual
        THEN push(s, native_bool_to_boolean_object(left # right))
        ELSE Fail(s, VmError("unknown boolean comparison operator"))))

\* a variant of execute_array_index whose last valid index is len - 2
execute_array_index_short(self, array, index) ==
    IF index.iv < 0 \/ index.iv >= Len(array.elements) - 1 THEN push(self, NULL)
    ELSE push(self, array.elements[index.iv + 1])

execute_array_index(self, array, index) ==
    IF index.iv < 0 \/ index.iv > Len(array.elements) - 1 THEN push(self, NULL)
    ELSE push(self, array.elements[index.iv + 1])

\* dict.get(key, NULL) on the pairs, kept in insertion order
HashGet(pairs, key) ==
    IF \E i \in 1..Len(pairs) : pairs[i][1] = key
    THEN pairs[CHOOSE i \in 1..Len(pairs) : pairs[i][1] = key][2]
    ELSE NULL

\* pairs[key] = value
HashSet(pairs, key, value) ==
    IF \E i \in 1..Len(pairs) : pairs[i][1] = key
    THEN [pairs EXCEPT ![CHOOSE i \in 1..Len(pairs) : pairs[i][1] = key] =
                           <<key, value>>]
    ELSE Append(pairs, <<key, value>>)

execute_hash_index(self, hash_map, key) ==
    IF ~Hashable(key) THEN Fail(self, Raised("TypeError", "unhashable"))
    ELSE push(self, HashGet(hash_map.pairs, key))

execute_index_expression(self, left, index) ==
    IF left.t = "ARRAY" /\ index.t = "INTEGER"
    THEN execute_array_index(self, left, index)
    ELSE IF left.t = "HASH" THEN execute_hash_index(self, left, index)
    ELSE Fail(self, VmError("index operator not supported"))

\* build_array(start, end), for start <= end
build_array(self, start, end) ==
    IF \E i \in start..(end - 1) : PyIndex(i, STACK_SIZE) = -1
    THEN Raised("IndexError", "stack")
    ELSE ArrayObject([j \in 1..(end - start) |-> StackAt(self, start + j - 1)])

\* build_hash(start, end): the keys at start, start+2, ... below end
build_hash(self, start, end) ==
    LET n == IF end > start THEN (end - start + 1) \div 2 ELSE 0
        upto[k \in 0..n] ==
            IF k = 0 THEN HashObject(<<>>)
            ELSE IF IsRaised(upto[k - 1]) THEN upto[k - 1]
            ELSE LET i == start + 2 * (k - 1)
                 IN IF PyIndex(i, STACK_SIZE) = -1
                       \/ PyIndex(i + 1, STACK_SIZE) = -1
                    THEN Raised("IndexError", "stack")
                    ELSE IF ~Hashable(StackAt(self, i))
                    THEN Raised("TypeError", "unhashable")
                    ELSE HashObject(HashSet(upto[k - 1].pairs, StackAt(self, i),
                                            StackAt(self, i + 1)))
    IN upto[n]

\* call_function without its comparison of num_args to num_parameters: the
\* arity property C4 must tell it from call_arity_mismatch
call_arity_unchecked(fn, num_args) == FALSE

call_arity_mismatch(fn, num_args) == num_args # fn.num_parameters

callee_slot(self, num_args) == self.sp - 1 - num_args

call_base_pointer(self, num_args) == self.sp - num_args

is_callable(fn) == fn.t = "COMPILED_FUNCTION"

call_function(self, num_args) ==
    LET fn == StackAt(self, callee_slot(self, num_args))
    IN IF PyIndex(callee_slot(self, num_args), STACK_SIZE) = -1
       THEN Fail(self, Raised("IndexError", "stack"))
       ELSE IF ~is_callable(fn) THEN Fail(self, VmError("calling non-function"))
       ELSE IF call_arity_mismatch(fn, num_args)
       THEN Fail(self, WrongArgsError(fn.num_parameters, num_args))
       ELSE Bind(push_frame(self, Frame(fn, call_base_pointer(self, num_args))),
                 LAMBDA s: [s EXCEPT !.sp = call_base_pointer(self, num_args)
                                            + fn.num_locals])

\* a return that leaves the callee's slot on the stack: the call/return
\* property C3 must tell it from return_sp
return_sp_keeping_callee(frame) == frame.base_pointer

\* sp after a return from `frame`
return_sp(frame) == frame.base_pointer - 1

\* OpReturnValue and OpReturn after the value is known: pop_frame, reset sp,
\* push the value
return_from_frame(self, value) ==
    LET frame == popped_frame(self)
    IN Bind(pop_frame(self), LAMBDA s:
           IF frame = PyNone THEN Fail(s, Raised("AttributeError", "base_pointer"))
           ELSE push([s EXCEPT !.sp = return_sp(frame)], value))

(***************************************************************************)
(* VirtualMachine.run: one step is one iteration of the loop.              *)
(***************************************************************************)
Self ==
    [constants |-> constants, stack |-> stack, sp |-> sp, globals |-> globals,
     frames |-> frames, frames_index |-> frames_index, err |-> NoErr]

\* the loop's condition can be evaluated (current_frame is a Frame) and holds
HasFrame == CurrentSlot(Self) # -1 /\ current_frame(Self) # PyNone
Ins == current_frame(Self).fn.instructions
LoopCondition == current_frame(Self).ip < Len(Ins) - 1

\* after `self.current_frame.ip += 1`
Ip == current_frame(Self).ip + 1
Fetched == AddIp(Self, 1)
CurByte == Ins[Ip + 1]
ValidOpcode(b) == \E n \in DOMAIN Opcode : Opcode[n] = b
OpName(b) == CHOOSE n \in DOMAIN Opcode : Opcode[n] = b

\* int.from_bytes(ins[ip+1:ip+3]) and code.read_uint8(ins[ip+1:ip+2])
Operand16 == from_bytes(Slice(Ins, Ip + 1, Ip + 3))
Operand8 == from_bytes(Slice(Ins, Ip + 1, Ip + 2))

At(ops) ==
    /\ status = "running"
    /\ HasFrame
    /\ LoopCondition
    /\ ValidOpcode(CurByte)
    /\ OpName(CurByte) \in ops

\* What a step leaves: the machine r, the history entry h, the call log c
Commit(r, h, c) ==
    /\ stack' = r.stack
    /\ sp' = r.sp
    /\ globals' = r.globals
    /\ frames' = r.frames
    /\ frames_index' = r.frames_index
    /\ err' = r.err
    /\ status' = IF r.err = NoErr THEN "running"
                 ELSE IF IsRaised(r.err) THEN "raised"
                 ELSE "returned"
    /\ last' = h
    /\ calls' = c
    /\ UNCHANGED <<prog, compile_err, constants, compiler, symtabs, program,
                   evaluator, encoding>>

\* The history entry of a step: the opcode, its position and operand, the
\* machine's sp, frames_index, globals and top of stack before the step, and
\* the opcode and top of stack of the step before it
Hist(op, operand) ==
    [op |-> op, ip |-> Ip, operand |-> operand, sp |-> sp,
     frames_index |-> frames_index, globals |-> globals, top |-> Top(Self),
     call |-> <<>>, prev |-> [op |-> last.op, top |-> last.top]]

ExecOpConstant ==
    /\ At({"OpConstant"})
    /\ Commit(IF Operand16 >= Len(constants)
              THEN Fail(AddIp(Fetched, 2), Raised("IndexError", "constants"))
              ELSE push(AddIp(Fetched, 2), constants[Operand16 + 1]),
              Hist("OpConstant", Operand16), calls)

ExecOpTrue == At({"OpTrue"}) /\ Commit(push(Fetched, TRUE_), Hist("OpTrue", 0), calls)

ExecOpFalse == At({"OpFalse"}) /\ Commit(push(Fetched, FALSE_), Hist("OpFalse", 0), calls)

ExecOpNull == At({"OpNull"}) /\ Commit(push(Fetched, NULL), Hist("OpNull", 0), calls)

ExecOpPop == At({"OpPop"}) /\ Commit(pop(Fetched), Hist("OpPop", 0), calls)

ExecBinaryOperation ==
    /\ At({"OpAdd", "OpSub", "OpMul", "OpDiv"})
    /\ Commit(execute_binary_operation(Fetched, CurByte),
              Hist(OpName(CurByte), 0), calls)

ExecComparison ==
    /\ At({"OpEqual", "OpNotEqual", "OpGreaterThan"})
    /\ Commit(execute_comparison(Fetched, CurByte),
              Hist(OpName(CurByte), 0), calls)

ExecOpBang ==
    At({"OpBang"}) /\ Commit(execute_bang_operator(Fetched), Hist("OpBang", 0), calls)

ExecOpMinus ==
    At({"OpMinus"}) /\ Commit(execute_minus_operator(Fetched), Hist("OpMinus", 0), calls)

ExecOpJump ==
    /\ At({"OpJump"})
    /\ Commit(SetIp(Fetched, Operand16 - 1), Hist("OpJump", Operand16), calls)

\* ip after OpJumpNotTruthy at ip with target pos has popped `condition`
jump_not_truthy_ip(ip, pos, condition) ==
    IF ~is_truthy(condition) THEN pos - 1 ELSE ip + 2

ExecOpJumpNotTruthy ==
    /\ At({"OpJumpNotTruthy"})
    /\ Commit(Bind(pop(Fetched), LAMBDA s:
                  SetIp(s, jump_not_truthy_ip(Ip, Operand16, Top(Self)))),
              Hist("OpJumpNotTruthy", Operand16), calls)

ExecOpSetGlobal ==
    /\ At({"OpSetGlobal"})
    /\ Commit(Bind(pop(AddIp(Fetched, 2)), LAMBDA s:
                  IF Operand16 >= GLOBALS_SIZE
                  THEN Fail(s, Raised("IndexError", "globals"))
                  ELSE [s EXCEPT !.globals = [i \in DOMAIN @ \cup {Operand16} |->
                            IF i = Operand16 THEN Top(Self) ELSE @[i]]]),
              Hist("OpSetGlobal", Operand16), calls)

\* globals[i]: PyNone in a slot never assigned
GlobalAt(self, i) == IF i \in DOMAIN self.globals THEN self.globals[i] ELSE PyNone

ExecOpGetGlobal ==
    /\ At({"OpGetGlobal"})
    /\ Commit(IF Operand16 >= GLOBALS_SIZE
              THEN Fail(AddIp(Fetched, 2), Raised("IndexError", "globals"))
              ELSE push(AddIp(Fetched, 2), GlobalAt(Self, Operand16)),
              Hist("OpGetGlobal", Operand16), calls)

ExecOpArray ==
    /\ At({"OpArray"})
    /\ LET array == build_array(Self, sp - Operand16, sp)
       IN Commit(IF IsRaised(array) THEN Fail(AddIp(Fetched, 2), array)
                 ELSE push([AddIp(Fetched, 2) EXCEPT !.sp = @ - Operand16], array),
                 Hist("OpArray", Operand16), calls)

ExecOpHash ==
    /\ At({"OpHash"})
    /\ LET hash_map == build_hash(Self, sp - Operand16, sp)
       IN Commit(IF IsRaised(hash_map) THEN Fail(AddIp(Fetched, 2), hash_map)
                 ELSE push([AddIp(Fetched, 2) EXCEPT !.sp = @ - Operand16], hash_map),
                 Hist("OpHash", Operand16), calls)

ExecOpIndex ==
    /\ At({"OpIndex"})
    /\ LET index == Top(Self)
           s1 == pop(Fetched)
           left == Top(s1)
       IN Commit(Bind(s1, LAMBDA a: Bind(pop(a), LAMBDA s:
                     execute_index_expression(s, left, index))),
                 Hist("OpIndex", 0), calls)

\* the call log entry of a call: sp and frames_index before the OpCall
CallEntry(num_args) == [sp |-> sp, num_args |-> num_args, frames_index |-> frames_index]

ExecOpCall ==
    /\ At({"OpCall"})
    /\ IF Ip + 1 >= Len(Ins)
       THEN Commit(Fail(Fetched, Raised("IndexError", "instructions")),
                   Hist("OpCall", 0), calls)
       ELSE LET num_args == Ins[Ip + 2]
                r == call_function(AddIp(Fetched, 1), num_args)
            IN Commit(r, Hist("OpCall", num_args),
                      IF r.err = NoErr THEN Append(calls, CallEntry(num_args))
                      ELSE calls)

\* the history entry of a return: the entry the call log held for the frame
HistReturn(op) ==
    [Hist(op, 0) EXCEPT !.call = IF calls = <<>> THEN <<>> ELSE <<calls[Len(calls)]>>]

CallsAfterReturn == IF calls = <<>> THEN calls ELSE SubSeq(calls, 1, Len(calls) - 1)

ExecOpReturnValue ==
    /\ At({"OpReturnValue"})
    /\ Commit(Bind(pop(Fetched), LAMBDA s: return_from_frame(s, Top(Self))),
              HistReturn("OpReturnValue"), CallsAfterReturn)

ExecOpReturn ==
    /\ At({"OpReturn"})
    /\ Commit(return_from_frame(Fetched, NULL), HistReturn("OpReturn"),
              CallsAfterReturn)

local_slot(frame, local_index) == frame.base_pointer + local_index

ExecOpSetLocal ==
    /\ At({"OpSetLocal"})
    /\ Commit(Bind(pop(AddIp(Fetched, 1)), LAMBDA s:
                  StackStore(s, local_slot(current_frame(Self), Operand8), Top(Self))),
              Hist("OpSetLocal", Operand8), calls)

ExecOpGetLocal ==
    /\ At({"OpGetLocal"})
    /\ Commit(IF PyIndex(local_slot(current_frame(Self), Operand8), STACK_SIZE) = -1
              THEN Fail(AddIp(Fetched, 1), Raised("IndexError", "stack"))
              ELSE push(AddIp(Fetched, 1),
                        StackAt(Self, local_slot(current_frame(Self), Operand8))),
              Hist("OpGetLocal", Operand8), calls)

\* OpGetBuiltin, OpGetFree, OpClosure, OpCurrentClosure: no branch of run's
\* if/elif chain matches, so the iteration ends with ip on the opcode byte
ExecNoBranch ==
    /\ At({"OpGetBuiltin", "OpGetFree", "OpClosure", "OpCurrentClosure"})
    /\ Commit(Fetched, Hist(OpName(CurByte), 0), calls)

\* Opcode(ins[ip].to_bytes(1)) raises ValueError: the byte is no opcode
FetchInvalid ==
    /\ status = "running" /\ HasFrame /\ LoopCondition
    /\ ~ValidOpcode(CurByte)
    /\ Commit(Fail(Fetched, Raised("ValueError", "Opcode")), Hist("invalid", CurByte), calls)

\* the loop's condition is false: run returns None
RunReturns ==
    /\ status = "running" /\ HasFrame /\ ~LoopCondition
    /\ status' = "returned"
    /\ UNCHANGED <<prog, compile_err, constants, stack, sp, globals, frames,
                   frames_index, err, calls, last, compiler, symtabs, program,
                   evaluator, encoding>>

\* current_frame is None (frames_index no longer names a frame): evaluating
\* the loop's condition raises AttributeError
RunNoFrame ==
    /\ status = "running" /\ ~HasFrame
    /\ status' = "raised"
    /\ err' = Raised("AttributeError", "ip")
    /\ UNCHANGED <<prog, compile_err, constants, stack, sp, globals, frames,
                   frames_index, calls, last, compiler, symtabs, program,
                   evaluator, encoding>>

(***************************************************************************)
(* monkey/symbol_table.py.  The compiler's tables form a chain: `tables`   *)
(* is the chain from the root table (tables[1]) to the current one, and    *)
(* the outer of tables[k] is tables[k-1].                                  *)
(***************************************************************************)
GlobalScope == "GLOBAL"
LocalScope == "LOCAL"
BuiltinScope == "BUILTIN"
FreeScope == "FREE"
FunctionScope == "FUNCTION"

Symbol(name, scope, index) == [name |-> name, scope |-> scope, index |-> index]
NoSymbol == Symbol("", "None", -1)

SymbolTable == [store |-> <<>>, num_definitions |-> 0, free_symbols |-> <<>>]

\* a variant of Bound that keeps the symbol a bound name already has
Bound_keeping_first(store, name, symbol) ==
    [n \in DOMAIN store \cup {name} |->
        IF n \in DOMAIN store THEN store[n] ELSE symbol]

\* store[name] = symbol
Bound(store, name, symbol) ==
    [n \in DOMAIN store \cup {name} |-> IF n = name THEN symbol ELSE store[n]]

\* a variant of define_scope that takes every table for an enclosed one
define_scope_ignoring_outer(tables, k) == LocalScope

\* GlobalScope if self.outer is None else LocalScope
define_scope(tables, k) == IF k = 1 THEN GlobalScope ELSE LocalScope

\* tables[k].define(name); the symbol it returns is tables[k].store[name]
define(tables, k, name) ==
    [tables EXCEPT ![k].store =
                       Bound(@, name, Symbol(name, define_scope(tables, k),
                                             tables[k].num_definitions)),
                   ![k].num_definitions = @ + 1]

define_builtin(tables, k, index, name) ==
    [tables EXCEPT ![k].store = Bound(@, name, Symbol(name, BuiltinScope, index))]

\* a variant of define_free that keeps the Free copy in free_symbols
define_free_keeping_copy(tables, k, original) ==
    [tables EXCEPT ![k].free_symbols =
                       Append(@, Symbol(original.name, FreeScope,
                                        Len(tables[k].free_symbols))),
                   ![k].store = Bound(@, original.name,
                                      Symbol(original.name, FreeScope,
                                             Len(tables[k].free_symbols)))]

\* a variant of define_free that numbers the free symbols from one
define_free_counting_from_one(tables, k, original) ==
    [tables EXCEPT ![k].free_symbols = Append(@, original),
                   ![k].store = Bound(@, original.name,
                                      Symbol(original.name, FreeScope,
                                             Len(tables[k].free_symbols) + 1))]

define_free(tables, k, original) ==
    [tables EXCEPT ![k].free_symbols = Append(@, original),
                   ![k].store = Bound(@, original.name,
                                      Symbol(original.name, FreeScope,
                                             Len(tables[k].free_symbols)))]

define_function_name(tables, k, name) ==
    [tables EXCEPT ![k].store = Bound(@, name, Symbol(name, FunctionScope, 0))]

\* a variant of in_store that overlooks the Free symbols of the store
in_store_unless_free(tables, k, name) ==
    /\ name \in DOMAIN tables[k].store
    /\ tables[k].store[name].scope # FreeScope

\* name in self.store
in_store(tables, k, name) == name \in DOMAIN tables[k].store

\* a variant of not_found that defines the missing name in the root table
not_found_defining(tables, k, name) ==
    [tables |-> define(tables, k, name),
     symbol |-> define(tables, k, name)[k].store[name]]

\* return None (the name is in no store up to the root table k)
not_found(tables, k, name) == [tables |-> tables, symbol |-> NoSymbol]

\* a variant of returned_unchanged that forgets the builtins
returned_unchanged_only_global(obj) == obj.scope = GlobalScope

\* obj.scope == GlobalScope or obj.scope == BuiltinScope
returned_unchanged(obj) == obj.scope = GlobalScope \/ obj.scope = BuiltinScope

RECURSIVE resolve_forgetting_outer(_, _, _)
\* a variant of resolve that drops what the outer tables did to resolve the
\* name: only the table asked is left with a free symbol
resolve_forgetting_outer(tables, k, name) ==
    IF in_store(tables, k, name)
    THEN [tables |-> tables, symbol |-> tables[k].store[name]]
    ELSE IF k > 1
    THEN LET r == resolve_forgetting_outer(tables, k - 1, name)
         IN IF r.symbol = NoSymbol THEN r
            ELSE IF returned_unchanged(r.symbol)
            THEN r
            ELSE LET t == define_free(tables, k, r.symbol)
                 IN [tables |-> t, symbol |-> t[k].store[name]]
    ELSE not_found(tables, k, name)

\* tables[k].resolve(name): the tables it leaves and the symbol it returns
\* (NoSymbol for None)
RECURSIVE resolve(_, _, _)
resolve(tables, k, name) ==
    IF in_store(tables, k, name)
    THEN [tables |-> tables, symbol |-> tables[k].store[name]]
    ELSE IF k > 1
    THEN LET r == resolve(tables, k - 1, name)
         IN IF r.symbol = NoSymbol THEN r
            ELSE IF returned_unchanged(r.symbol)
            THEN r
            ELSE LET t == define_free(r.tables, k, r.symbol)
                 IN [tables |-> t, symbol |-> t[k].store[name]]
    ELSE not_found(tables, k, name)

(***************************************************************************)
(* monkey/builtins.py: the names, in registration order                    *)
(***************************************************************************)
builtins == <<"len", "puts", "first", "last", "rest", "push">>

(***************************************************************************)
(* monkey/compiler.py.  The compiler is a record: constants, tables (the   *)
(* chain ending in self.symbol_table), scopes, scope_index, and err, what  *)
(* compile returned.                                                       *)
(***************************************************************************)
EmittedInstruction(opcode, position) == [opcode |-> opcode, position |-> position]
NoInstruction == EmittedInstruction("None", -1)

CompilationScope ==
    [instructions |-> <<>>, last_instruction |-> NoInstruction,
     previous_instruction |-> NoInstruction]

\* Compiler(): the root table holds the builtins.  ifs, loads, functions and
\* infixes are history: what the IfExpression, Identifier, FunctionLiteral
\* and InfixExpression branches of compile have done so far, in the order
\* they finished.
Compiler ==
    LET reg[i \in 0..Len(builtins)] ==
            IF i = 0 THEN <<SymbolTable>>
            ELSE define_builtin(reg[i - 1], 1, i - 1, builtins[i])
    IN [constants |-> <<>>, tables |-> reg[Len(builtins)],
        scopes |-> <<CompilationScope>>, scope_index |-> 0, err |-> NoErr,
        ifs |-> <<>>, loads |-> <<>>, functions |-> <<>>, infixes |-> <<>>,
        errors |-> <<>>]

CBind(c, F(_)) == IF c.err = NoErr THEN F(c) ELSE c

\* return CompilerError(...); errors is history: each error with the scopes
\* and constants the compiler held when it was returned
return_error(c, e) ==
    [c EXCEPT !.err = e,
              !.errors = Append(@, [err |-> e, scopes |-> c.scopes,
                                    scope_index |-> c.scope_index,
                                    constants |-> c.constants])]

\* self.current_scope is scopes[scope_index]
current_instructions(c) == c.scopes[c.scope_index + 1].instructions

enter_scope(c) ==
    [c EXCEPT !.scopes = Append(@, CompilationScope),
              !.scope_index = @ + 1,
              !.tables = Append(@, SymbolTable)]

\* a variant of leave_scope that leaves the symbol table of the scope in place
leave_scope_keeping_table(c) ==
    [c EXCEPT !.scopes = SubSeq(@, 1, Len(@) - 1),
              !.scope_index = @ - 1]

\* leave_scope returns current_instructions(c)
leave_scope(c) ==
    [c EXCEPT !.scopes = SubSeq(@, 1, Len(@) - 1),
              !.scope_index = @ - 1,
              !.tables = SubSeq(@, 1, Len(@) - 1)]

\* add_constant returns Len(c.constants)
add_constant(c, obj) == [c EXCEPT !.constants = Append(@, obj)]

\* emit returns the position Len(current_instructions(c)); add_instruction
\* and set_last_instruction are its body
emit(c, op, operands) ==
    [c EXCEPT !.scopes[c.scope_index + 1] =
        [instructions |-> @.instructions \o make(op, operands),
         last_instruction |-> EmittedInstruction(op, Len(@.instructions)),
         previous_instruction |-> @.last_instruction]]

last_instruction_is(c, op) ==
    IF Len(current_instructions(c)) = 0 THEN FALSE
    ELSE c.scopes[c.scope_index + 1].last_instruction.opcode = op

remove_last_pop(c) ==
    [c EXCEPT !.scopes[c.scope_index + 1] =
        [instructions |-> Slice(@.instructions, 0, @.last_instruction.position),
         last_instruction |-> @.previous_instruction,
         previous_instruction |-> @.previous_instruction]]

replace_instruction(c, pos, new_instruction) ==
    [c EXCEPT !.scopes[c.scope_index + 1].instructions =
        [i \in 1..Len(@) |->
            IF i - 1 >= pos /\ i - 1 < pos + Len(new_instruction)
            THEN new_instruction[i - pos] ELSE @[i]]]

\* a variant of replace_last_pop_with_return that leaves the OpPop and emits
\* OpReturnValue after it
replace_last_pop_with_return_appended(c) == emit(c, "OpReturnValue", <<>>)

replace_last_pop_with_return(c) ==
    LET last_pos == c.scopes[c.scope_index + 1].last_instruction.position
        r == replace_instruction(c, last_pos, make("OpReturnValue", <<>>))
    IN [r EXCEPT !.scopes[c.scope_index + 1].last_instruction.opcode =
                     "OpReturnValue"]

\* a variant of change_operand that writes the offset one past the operand
change_operand_one_past(c, op_pos, operand) ==
    replace_instruction(c, op_pos,
        make(OpName(current_instructions(c)[op_pos + 1]), <<operand + 1>>))

change_operand(c, op_pos, operand) ==
    replace_instruction(c, op_pos,
        make(OpName(current_instructions(c)[op_pos + 1]), <<operand>>))

\* load_symbol has a branch for three of the five scopes
load_symbol(c, sym) ==
    IF sym.scope = GlobalScope THEN emit(c, "OpGetGlobal", <<sym.index>>)
    ELSE IF sym.scope = LocalScope THEN emit(c, "OpGetLocal", <<sym.index>>)
    ELSE IF sym.scope = BuiltinScope THEN emit(c, "OpGetBuiltin", <<sym.index>>)
    ELSE c

\* the opcode of an infix operator other than <, "None" for an unknown one
InfixOpcode(operator) ==
    CASE operator = "+" -> "OpAdd"
      [] operator = "-" -> "OpSub"
      [] operator = "*" -> "OpMul"
      [] operator = "/" -> "OpDiv"
      [] operator = ">" -> "OpGreaterThan"
      [] operator = "==" -> "OpEqual"
      [] operator = "!=" -> "OpNotEqual"
      [] OTHER -> "None"

PrefixOpcode(operator) ==
    CASE operator = "-" -> "OpMinus"
      [] operator = "!" -> "OpBang"
      [] OTHER -> "None"

(***************************************************************************)
(* monkey/myast.py: str(node), as its sequence of code points, for the     *)
(* nodes the programs below use as hash keys (integer and boolean          *)
(* literals and prefix and infix expressions over them).                   *)
(***************************************************************************)
OperatorStr(operator) ==
    CASE operator = "+" -> <<43>>
      [] operator = "-" -> <<45>>
      [] operator = "*" -> <<42>>
      [] operator = "/" -> <<47>>
      [] operator = "<" -> <<60>>
      [] operator = ">" -> <<62>>
      [] operator = "==" -> <<61, 61>>
      [] operator = "!=" -> <<33, 61>>
      [] operator = "!" -> <<33>>

RECURSIVE IntStr(_)
IntStr(n) == IF n < 10 THEN <<48 + n>> ELSE IntStr(n \div 10) \o <<48 + (n % 10)>>

RECURSIVE NodeStr(_)
NodeStr(node) ==
    CASE node.type = "IntegerLiteral" ->
            <<73, 110, 116, 101, 103, 101, 114, 76, 105, 116, 101, 114, 97, 108, 40>> \o IntStr(node.int_value) \o <<41>>
      [] node.type = "Boolean" ->
            IF node.bool_value THEN <<66, 111, 111, 108, 101, 97, 110, 40, 84, 114, 117, 101, 41>>
            ELSE <<66, 111, 111, 108, 101, 97, 110, 40, 70, 97, 108, 115, 101, 41>>
      [] node.type = "PrefixExpression" ->
            <<80, 114, 101, 102, 105, 120, 69, 120, 112, 114, 101, 115, 115, 105, 111, 110, 40>>
                \o OperatorStr(node.operator) \o NodeStr(node.right) \o <<41>>
      [] node.type = "InfixExpression" ->
            <<73, 110, 102, 105, 120, 69, 120, 112, 114, 101, 115, 115, 105, 111, 110, 40>>
                \o NodeStr(node.left) \o <<32>> \o OperatorStr(node.operator)
                \o <<32>> \o NodeStr(node.right) \o <<41>>

\* a < b for Python strings: the first differing code point decides, and a
\* proper prefix is smaller
StrLess(a, b) ==
    \E i \in 1..Len(b) :
        /\ \A j \in 1..(i - 1) : j <= Len(a) /\ a[j] = b[j]
        /\ i > Len(a) \/ (i <= Len(a) /\ a[i] < b[i])

\* a variant of sorted_pairs that leaves the pairs in the order of the AST
sorted_pairs_as_inserted(pairs) == pairs

\* keys.sort(key=lambda x: str(x)) on the pairs of a HashLiteral: a stable
\* sort, each pair placed after the pairs whose key is not greater
sorted_pairs(pairs) ==
    LET ins(sorted, p) ==
            LET n == Cardinality({i \in 1..Len(sorted) :
                         ~StrLess(NodeStr(p[1]), NodeStr(sorted[i][1]))})
            IN SubSeq(sorted, 1, n) \o <<p>> \o SubSeq(sorted, n + 1, Len(sorted))
        upto[k \in 0..Len(pairs)] ==
            IF k = 0 THEN <<>> ELSE ins(upto[k - 1], pairs[k])
    IN upto[Len(pairs)]

(***************************************************************************)
(* Compiler.compile.  A node is a record with the fields of its class in   *)
(* monkey/myast.py (names and parameters are their strings; a missing      *)
(* alternative is NoNode).                                                 *)
(***************************************************************************)
NoNode == [type |-> "None"]

RECURSIVE compile(_, _)
RECURSIVE compile_each(_, _, _)
RECURSIVE compile_pairs(_, _, _)
RECURSIVE define_each(_, _, _)

\* a variant of compile_each that goes on to the next node after an error
compile_each_to_the_end(c, nodes, i) ==
    IF i > Len(nodes) THEN c
    ELSE compile_each(compile(c, nodes[i]), nodes, i + 1)

\* for x in nodes: if (err := self.compile(x)) is not None: return err
compile_each(c, nodes, i) ==
    IF i > Len(nodes) \/ c.err # NoErr THEN c
    ELSE compile_each(compile(c, nodes[i]), nodes, i + 1)

\* the loop over the sorted keys of a HashLiteral: the key, then its value
compile_pairs(c, pairs, i) ==
    IF i > Len(pairs) \/ c.err # NoErr THEN c
    ELSE compile_pairs(CBind(compile(c, pairs[i][1]),
                             LAMBDA d: compile(d, pairs[i][2])),
                       pairs, i + 1)

\* for param in node.parameters: self.symbol_table.define(param.value)
define_each(c, parameters, i) ==
    IF i > Len(parameters) THEN c
    ELSE define_each([c EXCEPT !.tables = define(@, Len(@), parameters[i])],
                     parameters, i + 1)

\* if self.last_instruction_is(OpPop): self.remove_last_pop()
trim_last_pop(c) == IF last_instruction_is(c, "OpPop") THEN remove_last_pop(c) ELSE c

compile_if(c, node) ==
    CBind(compile(c, node.condition), LAMBDA c1:
    CBind(compile(emit(c1, "OpJumpNotTruthy", <<9999>>), node.consequence),
          LAMBDA c3:
    LET jump_not_truthy_pos == Len(current_instructions(c1))
        c4 == trim_last_pop(c3)
        jump_pos == Len(current_instructions(c4))
        c5 == emit(c4, "OpJump", <<9999>>)
        c6 == change_operand(c5, jump_not_truthy_pos,
                             Len(current_instructions(c5)))
        c7 == IF node.alternative.type = "None" THEN emit(c6, "OpNull", <<>>)
              ELSE CBind(compile(c6, node.alternative), trim_last_pop)
    IN CBind(c7, LAMBDA c8:
           LET c9 == change_operand(c8, jump_pos, Len(current_instructions(c8)))
           IN [c9 EXCEPT !.ifs = Append(@,
                  [scope_index |-> c9.scope_index,
                   jump_not_truthy_pos |-> jump_not_truthy_pos,
                   jump_pos |-> jump_pos,
                   has_alternative |-> node.alternative.type # "None",
                   instructions |-> current_instructions(c9)])])))

\* the LetStatement branch, once the value is compiled
let_binding(c, node) ==
    LET tables == define(c.tables, Len(c.tables), node.name)
        symbol == tables[Len(tables)].store[node.name]
        d == [c EXCEPT !.tables = tables]
    IN IF symbol.scope = GlobalScope THEN emit(d, "OpSetGlobal", <<symbol.index>>)
       ELSE emit(d, "OpSetLocal", <<symbol.index>>)

compile_let(c, node) ==
    CBind(compile(c, node.value), LAMBDA d: let_binding(d, node))

compile_identifier(c, node) ==
    LET r == resolve(c.tables, Len(c.tables), node.ident)
    IN IF r.symbol = NoSymbol
       THEN return_error([c EXCEPT !.tables = r.tables],
                         CompilerError("Undefined variable", node.ident))
       ELSE LET d == load_symbol([c EXCEPT !.tables = r.tables], r.symbol)
            IN [d EXCEPT !.loads = Append(@,
                   [symbol |-> r.symbol,
                    emitted |-> Slice(current_instructions(d),
                                      Len(current_instructions(c)),
                                      Len(current_instructions(d)))])]

\* the FunctionLiteral branch, once the body is compiled
function_end(c, node) ==
    LET c1 == IF last_instruction_is(c, "OpPop")
              THEN replace_last_pop_with_return(c) ELSE c
        c2 == IF ~last_instruction_is(c1, "OpReturnValue")
              THEN emit(c1, "OpReturn", <<>>) ELSE c1
        num_locals == c2.tables[Len(c2.tables)].num_definitions
        compiled_fn == CompiledFunction(current_instructions(c2), num_locals,
                                        Len(node.parameters))
        c3 == leave_scope(c2)
        c4 == emit(add_constant(c3, compiled_fn), "OpConstant", <<Len(c3.constants)>>)
    IN [c4 EXCEPT !.functions = Append(@,
           [compiled_fn |-> compiled_fn,
            node |-> node,
            body |-> current_instructions(c),
            free_symbols |-> c2.tables[Len(c2.tables)].free_symbols,
            constants |-> c4.constants,
            emitted |-> Slice(current_instructions(c4),
                              Len(current_instructions(c3)),
                              Len(current_instructions(c4)))])]

compile_function(c, node) ==
    CBind(compile(define_each(enter_scope(c), node.parameters, 1), node.body),
          LAMBDA d: function_end(d, node))

\* history of an InfixExpression: where the instructions of each operand
\* start in the scope
infix_compiled(c, node, left_pos, right_pos) ==
    [c EXCEPT !.infixes = Append(@, [operator |-> node.operator,
                                     left_pos |-> left_pos,
                                     right_pos |-> right_pos,
                                     end_pos |-> Len(current_instructions(c))])]

compile_infix(c, node) ==
    IF node.operator = "<"
    THEN CBind(compile(c, node.right), LAMBDA c1:
         CBind(compile(c1, node.left), LAMBDA c2:
             infix_compiled(emit(c2, "OpGreaterThan", <<>>), node,
                            Len(current_instructions(c1)),
                            Len(current_instructions(c)))))
    ELSE CBind(compile(c, node.left), LAMBDA c1:
         CBind(compile(c1, node.right), LAMBDA c2:
             IF InfixOpcode(node.operator) = "None"
             THEN return_error(c2, CompilerError("Unknown operator", node.operator))
             ELSE infix_compiled(emit(c2, InfixOpcode(node.operator), <<>>), node,
                                 Len(current_instructions(c)),
                                 Len(current_instructions(c1)))))

compile_prefix(c, node) ==
    CBind(compile(c, node.right), LAMBDA c1:
        IF PrefixOpcode(node.operator) = "None"
        THEN return_error(c1, CompilerError("Unknown operator", node.operator))
        ELSE emit(c1, PrefixOpcode(node.operator), <<>>))

compile(c, node) ==
    CASE node.type = "Program" -> compile_each(c, node.statements, 1)
      [] node.type = "ExpressionStatement" ->
            CBind(compile(c, node.expression), LAMBDA d: emit(d, "OpPop", <<>>))
      [] node.type = "InfixExpression" -> compile_infix(c, node)
      [] node.type = "PrefixExpression" -> compile_prefix(c, node)
      [] node.type = "IntegerLiteral" ->
            emit(add_constant(c, IntegerObject(node.int_value)), "OpConstant",
                 <<Len(c.constants)>>)
      [] node.type = "Boolean" ->
            IF node.bool_value THEN emit(c, "OpTrue", <<>>)
            ELSE emit(c, "OpFalse", <<>>)
      [] node.type = "StringLiteral" ->
            emit(add_constant(c, StringObject(node.str_value)), "OpConstant",
                 <<Len(c.constants)>>)
      [] node.type = "IfExpression" -> compile_if(c, node)
      [] node.type = "BlockStatement" -> compile_each(c, node.statements, 1)
      [] node.type = "LetStatement" -> compile_let(c, node)
      [] node.type = "Identifier" -> compile_identifier(c, node)
      [] node.type = "ArrayLiteral" ->
            CBind(compile_each(c, node.elements, 1), LAMBDA d:
                emit(d, "OpArray", <<Len(node.elements)>>))
      [] node.type = "HashLiteral" ->
            CBind(compile_pairs(c, sorted_pairs(node.pairs), 1), LAMBDA d:
                emit(d, "OpHash", <<2 * Len(node.pairs)>>))
      [] node.type = "IndexExpression" ->
            CBind(compile(c, node.left), LAMBDA c1:
            CBind(compile(c1, node.index), LAMBDA c2:
                emit(c2, "OpIndex", <<>>)))
      [] node.type = "FunctionLiteral" -> compile_function(c, node)
      [] node.type = "ReturnStatement" ->
            CBind(compile(c, node.return_value), LAMBDA d:
                emit(d, "OpReturnValue", <<>>))
      [] node.type = "CallExpression" ->
            CBind(compile(c, node.function), LAMBDA c1:
            CBind(compile_each(c1, node.arguments, 1), LAMBDA c2:
                emit(c2, "OpCall", <<Len(node.arguments)>>)))
      [] OTHER -> c

Bytecode(instructions, consts) ==
    [type |-> "Bytecode", instructions |-> instructions, constants |-> consts]

\* Compiler.bytecode()
bytecode(c) == Bytecode(current_instructions(c), c.constants)

(***************************************************************************)
(* monkey/myast.py: the nodes                                              *)
(***************************************************************************)
Program(statements) == [type |-> "Program", statements |-> statements]
ExpressionStatement(expression) ==
    [type |-> "ExpressionStatement", expression |-> expression]
LetStatement(name, value) == [type |-> "LetStatement", name |-> name, value |-> value]
ReturnStatement(return_value) ==
    [type |-> "ReturnStatement", return_value |-> return_value]
BlockStatement(statements) == [type |-> "BlockStatement", statements |-> statements]
IntegerLiteral(value) == [type |-> "IntegerLiteral", int_value |-> value]
Boolean(value) == [type |-> "Boolean", bool_value |-> value]
StringLiteral(value) == [type |-> "StringLiteral", str_value |-> value]
Identifier(value) == [type |-> "Identifier", ident |-> value]
PrefixExpression(operator, right) ==
    [type |-> "PrefixExpression", operator |-> operator, right |-> right]
InfixExpression(left, operator, right) ==
    [type |-> "InfixExpression", left |-> left, operator |-> operator,
     right |-> right]
IfExpression(condition, consequence, alternative) ==
    [type |-> "IfExpression", condition |-> condition,
     consequence |-> consequence, alternative |-> alternative]
FunctionLiteral(parameters, body) ==
    [type |-> "FunctionLiteral", parameters |-> parameters, body |-> body]
CallExpression(function, arguments) ==
    [type |-> "CallExpression", function |-> function, arguments |-> arguments]
ArrayLiteral(elements) == [type |-> "ArrayLiteral", elements |-> elements]
HashLiteral(pairs) == [type |-> "HashLiteral", pairs |-> pairs]
IndexExpression(left, index) ==
    [type |-> "IndexExpression", left |-> left, index |-> index]

(***************************************************************************)
(* The programs: the inputs of test/test_vm.py, each with the value or     *)
(* error its test expects, and further inputs of the same shapes (their   *)
(* expected value is Unspecified, but for the conditionals, whose          *)
(* condition is truthy and whose consequence is 10).  input is the AST     *)
(* the parser builds for the source quoted above it.                       *)
(***************************************************************************)
ErrorObject(message) == [t |-> "ERROR", message |-> message]
Unspecified == [t |-> "unspecified"]
VmTestCase(kind, expected, input) ==
    [kind |-> kind, expected |-> expected, input |-> input]

TestPrograms ==
  <<
    \* 1: 1 + 2
    VmTestCase("arith", IntegerObject(3),
    Program(<<ExpressionStatement(InfixExpression(IntegerLiteral(1), "+",
    IntegerLiteral(2)))>>)),
    \* 2: 50 / 2 * 2 + 10 - 5
    VmTestCase("arith", IntegerObject(55),
    Program(<<ExpressionStatement(InfixExpression(InfixExpression(InfixExpression(InfixExpression(IntegerLiteral(50),
    "/", IntegerLiteral(2)), "*", IntegerLiteral(2)), "+",
    IntegerLiteral(10)), "-", IntegerLiteral(5)))>>)),
    \* 3: -50 + 100 + -50
    VmTestCase("arith", IntegerObject(0),
    Program(<<ExpressionStatement(InfixExpression(InfixExpression(PrefixExpression("-",
    IntegerLiteral(50)), "+", IntegerLiteral(100)), "+",
    PrefixExpression("-", IntegerLiteral(50))))>>)),
    \* 4: (5 + 10 * 2 + 15 / 3) * 2 + -10
    VmTestCase("arith", IntegerObject(50),
    Program(<<ExpressionStatement(InfixExpression(InfixExpression(InfixExpression(InfixExpression(IntegerLiteral(5),
    "+", InfixExpression(IntegerLiteral(10), "*", IntegerLiteral(2))), "+",
    InfixExpression(IntegerLiteral(15), "/", IntegerLiteral(3))), "*",
    IntegerLiteral(2)), "+", PrefixExpression("-", IntegerLiteral(10))))>>)),
    \* 5: 1 < 2
    VmTestCase("bool", TRUE_,
    Program(<<ExpressionStatement(InfixExpression(IntegerLiteral(1), "<",
    IntegerLiteral(2)))>>)),
    \* 6: 1 > 2
    VmTestCase("bool", FALSE_,
    Program(<<ExpressionStatement(InfixExpression(IntegerLiteral(1), ">",
    IntegerLiteral(2)))>>)),
    \* 7: 1 != 2
    VmTestCase("bool", TRUE_,
    Program(<<ExpressionStatement(InfixExpression(IntegerLiteral(1), "!=",
    IntegerLiteral(2)))>>)),
    \* 8: true == false
    VmTestCase("bool", FALSE_,
    Program(<<ExpressionStatement(InfixExpression(Boolean(TRUE), "==",
    Boolean(FALSE)))>>)),
    \* 9: (1 > 2) == false
    VmTestCase("bool", TRUE_,
    Program(<<ExpressionStatement(InfixExpression(InfixExpression(IntegerLiteral(1),
    ">", IntegerLiteral(2)), "==", Boolean(FALSE)))>>)),
    \* 10: !true
    VmTestCase("bang", FALSE_,
    Program(<<ExpressionStatement(PrefixExpression("!", Boolean(TRUE)))>>)),
    \* 11: !false
    VmTestCase("bang", TRUE_,
    Program(<<ExpressionStatement(PrefixExpression("!", Boolean(FALSE)))>>)),
    \* 12: !5
    VmTestCase("bang", FALSE_,
    Program(<<ExpressionStatement(PrefixExpression("!",
    IntegerLiteral(5)))>>)),
    \* 13: !!true
    VmTestCase("bang", TRUE_,
    Program(<<ExpressionStatement(PrefixExpression("!", PrefixExpression("!",
    Boolean(TRUE))))>>)),
    \* 14: !!false
    VmTestCase("bang", FALSE_,
    Program(<<ExpressionStatement(PrefixExpression("!", PrefixExpression("!",
    Boolean(FALSE))))>>)),
    \* 15: !!5
    VmTestCase("bang", TRUE_,
    Program(<<ExpressionStatement(PrefixExpression("!", PrefixExpression("!",
    IntegerLiteral(5))))>>)),
    \* 16: !(if (false) { 5 })
    VmTestCase("bang", TRUE_,
    Program(<<ExpressionStatement(PrefixExpression("!",
    IfExpression(Boolean(FALSE),
    BlockStatement(<<ExpressionStatement(IntegerLiteral(5))>>),
    NoNode)))>>)),
    \* 17: !!(if (false) { 5 })
    VmTestCase("bang", Unspecified,
    Program(<<ExpressionStatement(PrefixExpression("!", PrefixExpression("!",
    IfExpression(Boolean(FALSE),
    BlockStatement(<<ExpressionStatement(IntegerLiteral(5))>>),
    NoNode))))>>)),
    \* 18: !!0
    VmTestCase("bang", Unspecified,
    Program(<<ExpressionStatement(PrefixExpression("!", PrefixExpression("!",
    IntegerLiteral(0))))>>)),
    \* 19: !!""
    VmTestCase("bang", Unspecified,
    Program(<<ExpressionStatement(PrefixExpression("!", PrefixExpression("!",
    StringLiteral(""))))>>)),
    \* 20: !!"a"
    VmTestCase("bang", Unspecified,
    Program(<<ExpressionStatement(PrefixExpression("!", PrefixExpression("!",
    StringLiteral("a"))))>>)),
    \* 21: !![]
    VmTestCase("bang", Unspecified,
    Program(<<ExpressionStatement(PrefixExpression("!", PrefixExpression("!",
    ArrayLiteral(<<>>))))>>)),
    \* 22: !!{}
    VmTestCase("bang", Unspecified,
    Program(<<ExpressionStatement(PrefixExpression("!", PrefixExpression("!",
    HashLiteral(<<>>))))>>)),
    \* 23: !!fn() { 1 }
    VmTestCase("bang", Unspecified,
    Program(<<ExpressionStatement(PrefixExpression("!", PrefixExpression("!",
    FunctionLiteral(<<>>,
    BlockStatement(<<ExpressionStatement(IntegerLiteral(1))>>)))))>>)),
    \* 24: "mon" + "key" + "banana"
    VmTestCase("string", StringObject("monkeybanana"),
    Program(<<ExpressionStatement(InfixExpression(InfixExpression(StringLiteral("mon"),
    "+", StringLiteral("key")), "+", StringLiteral("banana")))>>)),
    \* 25: if (true) { 10 }
    VmTestCase("cond", IntegerObject(10),
    Program(<<ExpressionStatement(IfExpression(Boolean(TRUE),
    BlockStatement(<<ExpressionStatement(IntegerLiteral(10))>>),
    NoNode))>>)),
    \* 26: if (true) { 10 } else { 20 }
    VmTestCase("cond", IntegerObject(10),
    Program(<<ExpressionStatement(IfExpression(Boolean(TRUE),
    BlockStatement(<<ExpressionStatement(IntegerLiteral(10))>>),
    BlockStatement(<<ExpressionStatement(IntegerLiteral(20))>>)))>>)),
    \* 27: if (false) { 10 } else { 20 }
    VmTestCase("cond", IntegerObject(20),
    Program(<<ExpressionStatement(IfExpression(Boolean(FALSE),
    BlockStatement(<<ExpressionStatement(IntegerLiteral(10))>>),
    BlockStatement(<<ExpressionStatement(IntegerLiteral(20))>>)))>>)),
    \* 28: if (1) { 10 }
    VmTestCase("cond", IntegerObject(10),
    Program(<<ExpressionStatement(IfExpression(IntegerLiteral(1),
    BlockStatement(<<ExpressionStatement(IntegerLiteral(10))>>),
    NoNode))>>)),
    \* 29: if (1 < 2) { 10 } else { 20 }
    VmTestCase("cond", IntegerObject(10),
    Program(<<ExpressionStatement(IfExpression(InfixExpression(IntegerLiteral(1),
    "<", IntegerLiteral(2)),
    BlockStatement(<<ExpressionStatement(IntegerLiteral(10))>>),
    BlockStatement(<<ExpressionStatement(IntegerLiteral(20))>>)))>>)),
    \* 30: if (1 > 2) { 10 } else { 20 }
    VmTestCase("cond", IntegerObject(20),
    Program(<<ExpressionStatement(IfExpression(InfixExpression(IntegerLiteral(1),
    ">", IntegerLiteral(2)),
    BlockStatement(<<ExpressionStatement(IntegerLiteral(10))>>),
    BlockStatement(<<ExpressionStatement(IntegerLiteral(20))>>)))>>)),
    \* 31: if (1 > 2) { 10 }
    VmTestCase("cond", NULL,
    Program(<<ExpressionStatement(IfExpression(InfixExpression(IntegerLiteral(1),
    ">", IntegerLiteral(2)),
    BlockStatement(<<ExpressionStatement(IntegerLiteral(10))>>),
    NoNode))>>)),
    \* 32: if (false) { 10 }
    VmTestCase("cond", NULL,
    Program(<<ExpressionStatement(IfExpression(Boolean(FALSE),
    BlockStatement(<<ExpressionStatement(IntegerLiteral(10))>>),
    NoNode))>>)),
    \* 33: if ((if (false) { 10 })) { 10 } else { 20 }
    VmTestCase("cond", IntegerObject(20),
    Program(<<ExpressionStatement(IfExpression(IfExpression(Boolean(FALSE),
    BlockStatement(<<ExpressionStatement(IntegerLiteral(10))>>), NoNode),
    BlockStatement(<<ExpressionStatement(IntegerLiteral(10))>>),
    BlockStatement(<<ExpressionStatement(IntegerLiteral(20))>>)))>>)),
    \* 34: if (0) { 10 } else { 20 }
    VmTestCase("cond", IntegerObject(10),
    Program(<<ExpressionStatement(IfExpression(IntegerLiteral(0),
    BlockStatement(<<ExpressionStatement(IntegerLiteral(10))>>),
    BlockStatement(<<ExpressionStatement(IntegerLiteral(20))>>)))>>)),
    \* 35: if ("") { 10 } else { 20 }
    VmTestCase("cond", IntegerObject(10),
    Program(<<ExpressionStatement(IfExpression(StringLiteral(""),
    BlockStatement(<<ExpressionStatement(IntegerLiteral(10))>>),
    BlockStatement(<<ExpressionStatement(IntegerLiteral(20))>>)))>>)),
    \* 36: if ([]) { 10 } else { 20 }
    VmTestCase("cond", IntegerObject(10),
    Program(<<ExpressionStatement(IfExpression(ArrayLiteral(<<>>),
    BlockStatement(<<ExpressionStatement(IntegerLiteral(10))>>),
    BlockStatement(<<ExpressionStatement(IntegerLiteral(20))>>)))>>)),
    \* 37: if ({}) { 10 } else { 20 }
    VmTestCase("cond", IntegerObject(10),
    Program(<<ExpressionStatement(IfExpression(HashLiteral(<<>>),
    BlockStatement(<<ExpressionStatement(IntegerLiteral(10))>>),
    BlockStatement(<<ExpressionStatement(IntegerLiteral(20))>>)))>>)),
    \* 38: if (fn() { 1 }) { 10 } else { 20 }
    VmTestCase("cond", IntegerObject(10),
    Program(<<ExpressionStatement(IfExpression(FunctionLiteral(<<>>,
    BlockStatement(<<ExpressionStatement(IntegerLiteral(1))>>)),
    BlockStatement(<<ExpressionStatement(IntegerLiteral(10))>>),
    BlockStatement(<<ExpressionStatement(IntegerLiteral(20))>>)))>>)),
    \* 39: if (true) { }
    VmTestCase("emptyif", Unspecified,
    Program(<<ExpressionStatement(IfExpression(Boolean(TRUE),
    BlockStatement(<<>>), NoNode))>>)),
    \* 40: if (true) { let a = 1; }
    VmTestCase("emptyif", Unspecified,
    Program(<<ExpressionStatement(IfExpression(Boolean(TRUE),
    BlockStatement(<<LetStatement("a", IntegerLiteral(1))>>), NoNode))>>)),
    \* 41: if (false) { 1 } else { }
    VmTestCase("emptyif", Unspecified,
    Program(<<ExpressionStatement(IfExpression(Boolean(FALSE),
    BlockStatement(<<ExpressionStatement(IntegerLiteral(1))>>),
    BlockStatement(<<>>)))>>)),
    \* 42: 1; if (true) { }; 2
    VmTestCase("emptyif", Unspecified,
    Program(<<ExpressionStatement(IntegerLiteral(1)),
    ExpressionStatement(IfExpression(Boolean(TRUE), BlockStatement(<<>>),
    NoNode)), ExpressionStatement(IntegerLiteral(2))>>)),
    \* 43: let f = fn() { if (true) { } }; f();
    VmTestCase("emptyif", Unspecified, Program(<<LetStatement("f",
    FunctionLiteral(<<>>,
    BlockStatement(<<ExpressionStatement(IfExpression(Boolean(TRUE),
    BlockStatement(<<>>), NoNode))>>))),
    ExpressionStatement(CallExpression(Identifier("f"), <<>>))>>)),
    \* 44: let one = 1; one
    VmTestCase("let", IntegerObject(1), Program(<<LetStatement("one",
    IntegerLiteral(1)), ExpressionStatement(Identifier("one"))>>)),
    \* 45: let one = 1; let two = one + one; one + two
    VmTestCase("let", IntegerObject(3), Program(<<LetStatement("one",
    IntegerLiteral(1)), LetStatement("two",
    InfixExpression(Identifier("one"), "+", Identifier("one"))),
    ExpressionStatement(InfixExpression(Identifier("one"), "+",
    Identifier("two")))>>)),
    \* 46: []
    VmTestCase("array", ArrayObject(<<>>),
    Program(<<ExpressionStatement(ArrayLiteral(<<>>))>>)),
    \* 47: [1 + 2, 3 * 4, 5 + 6]
    VmTestCase("array", ArrayObject(<<IntegerObject(3), IntegerObject(12),
    IntegerObject(11)>>),
    Program(<<ExpressionStatement(ArrayLiteral(<<InfixExpression(IntegerLiteral(1),
    "+", IntegerLiteral(2)), InfixExpression(IntegerLiteral(3), "*",
    IntegerLiteral(4)), InfixExpression(IntegerLiteral(5), "+",
    IntegerLiteral(6))>>))>>)),
    \* 48: {}
    VmTestCase("hash", HashObject(<<>>),
    Program(<<ExpressionStatement(HashLiteral(<<>>))>>)),
    \* 49: {1: 2, 2: 3}
    VmTestCase("hash", HashObject(<<<<IntegerObject(1), IntegerObject(2)>>,
    <<IntegerObject(2), IntegerObject(3)>>>>),
    Program(<<ExpressionStatement(HashLiteral(<<<<IntegerLiteral(1),
    IntegerLiteral(2)>>, <<IntegerLiteral(2), IntegerLiteral(3)>>>>))>>)),
    \* 50: {1 + 1: 2 * 2, 3 + 3: 4 * 4}
    VmTestCase("hash", HashObject(<<<<IntegerObject(2), IntegerObject(4)>>,
    <<IntegerObject(6), IntegerObject(16)>>>>),
    Program(<<ExpressionStatement(HashLiteral(<<<<InfixExpression(IntegerLiteral(1),
    "+", IntegerLiteral(1)), InfixExpression(IntegerLiteral(2), "*",
    IntegerLiteral(2))>>, <<InfixExpression(IntegerLiteral(3), "+",
    IntegerLiteral(3)), InfixExpression(IntegerLiteral(4), "*",
    IntegerLiteral(4))>>>>))>>)),
    \* 51: [1, 2, 3][0 + 2]
    VmTestCase("index", IntegerObject(3),
    Program(<<ExpressionStatement(IndexExpression(ArrayLiteral(<<IntegerLiteral(1),
    IntegerLiteral(2), IntegerLiteral(3)>>),
    InfixExpression(IntegerLiteral(0), "+", IntegerLiteral(2))))>>)),
    \* 52: [[1, 1, 1]][0][0]
    VmTestCase("index", IntegerObject(1),
    Program(<<ExpressionStatement(IndexExpression(IndexExpression(ArrayLiteral(<<ArrayLiteral(<<IntegerLiteral(1),
    IntegerLiteral(1), IntegerLiteral(1)>>)>>), IntegerLiteral(0)),
    IntegerLiteral(0)))>>)),
    \* 53: [][0]
    VmTestCase("index", NULL,
    Program(<<ExpressionStatement(IndexExpression(ArrayLiteral(<<>>),
    IntegerLiteral(0)))>>)),
    \* 54: [1][-1]
    VmTestCase("index", NULL,
    Program(<<ExpressionStatement(IndexExpression(ArrayLiteral(<<IntegerLiteral(1)>>),
    PrefixExpression("-", IntegerLiteral(1))))>>)),
    \* 55: {1: 1, 2: 2}[2]
    VmTestCase("index", IntegerObject(2),
    Program(<<ExpressionStatement(IndexExpression(HashLiteral(<<<<IntegerLiteral(1),
    IntegerLiteral(1)>>, <<IntegerLiteral(2), IntegerLiteral(2)>>>>),
    IntegerLiteral(2)))>>)),
    \* 56: {1: 1}[0]
    VmTestCase("index", NULL,
    Program(<<ExpressionStatement(IndexExpression(HashLiteral(<<<<IntegerLiteral(1),
    IntegerLiteral(1)>>>>), IntegerLiteral(0)))>>)),
    \* 57: {1 + 1: 2 * 2, 3 + 3: 4 * 4}[6]
    VmTestCase("index", IntegerObject(16),
    Program(<<ExpressionStatement(IndexExpression(HashLiteral(<<<<InfixExpression(IntegerLiteral(1),
    "+", IntegerLiteral(1)), InfixExpression(IntegerLiteral(2), "*",
    IntegerLiteral(2))>>, <<InfixExpression(IntegerLiteral(3), "+",
    IntegerLiteral(3)), InfixExpression(IntegerLiteral(4), "*",
    IntegerLiteral(4))>>>>), IntegerLiteral(6)))>>)),
    \* 58: 1[0]
    VmTestCase("index", Unspecified,
    Program(<<ExpressionStatement(IndexExpression(IntegerLiteral(1),
    IntegerLiteral(0)))>>)),
    \* 59: let fivePlusTen = fn() { 5 + 10 }; fivePlusTen();
    VmTestCase("call", IntegerObject(15),
    Program(<<LetStatement("fivePlusTen", FunctionLiteral(<<>>,
    BlockStatement(<<ExpressionStatement(InfixExpression(IntegerLiteral(5),
    "+", IntegerLiteral(10)))>>))),
    ExpressionStatement(CallExpression(Identifier("fivePlusTen"), <<>>))>>)),
    \* 60: let noReturn = fn() { }; noReturn();
    VmTestCase("call", NULL, Program(<<LetStatement("noReturn",
    FunctionLiteral(<<>>, BlockStatement(<<>>))),
    ExpressionStatement(CallExpression(Identifier("noReturn"), <<>>))>>)),
    \* 61: let early = fn() { return 99; 100; }; early();
    VmTestCase("call", IntegerObject(99), Program(<<LetStatement("early",
    FunctionLiteral(<<>>,
    BlockStatement(<<ReturnStatement(IntegerLiteral(99)),
    ExpressionStatement(IntegerLiteral(100))>>))),
    ExpressionStatement(CallExpression(Identifier("early"), <<>>))>>)),
    \* 62: let one = fn() { let one = 1; one }; one();
    VmTestCase("call", IntegerObject(1), Program(<<LetStatement("one",
    FunctionLiteral(<<>>, BlockStatement(<<LetStatement("one",
    IntegerLiteral(1)), ExpressionStatement(Identifier("one"))>>))),
    ExpressionStatement(CallExpression(Identifier("one"), <<>>))>>)),
    \* 63: let firstFoobar = fn() { let foobar = 50; foobar; }; let secondFoobar = fn() { let foobar = 100; foobar; }; firstFoobar() + secondFoobar();
    VmTestCase("call", IntegerObject(150),
    Program(<<LetStatement("firstFoobar", FunctionLiteral(<<>>,
    BlockStatement(<<LetStatement("foobar", IntegerLiteral(50)),
    ExpressionStatement(Identifier("foobar"))>>))),
    LetStatement("secondFoobar", FunctionLiteral(<<>>,
    BlockStatement(<<LetStatement("foobar", IntegerLiteral(100)),
    ExpressionStatement(Identifier("foobar"))>>))),
    ExpressionStatement(InfixExpression(CallExpression(Identifier("firstFoobar"),
    <<>>), "+", CallExpression(Identifier("secondFoobar"), <<>>)))>>)),
    \* 64: let globalSeed = 50; let minusOne = fn() { let num = 1; globalSeed - num; } let minusTwo = fn() { let num = 2; globalSeed - num; } minusOne() + minusTwo();
    VmTestCase("call", IntegerObject(97),
    Program(<<LetStatement("globalSeed", IntegerLiteral(50)),
    LetStatement("minusOne", FunctionLiteral(<<>>,
    BlockStatement(<<LetStatement("num", IntegerLiteral(1)),
    ExpressionStatement(InfixExpression(Identifier("globalSeed"), "-",
    Identifier("num")))>>))), LetStatement("minusTwo", FunctionLiteral(<<>>,
    BlockStatement(<<LetStatement("num", IntegerLiteral(2)),
    ExpressionStatement(InfixExpression(Identifier("globalSeed"), "-",
    Identifier("num")))>>))),
    ExpressionStatement(InfixExpression(CallExpression(Identifier("minusOne"),
    <<>>), "+", CallExpression(Identifier("minusTwo"), <<>>)))>>)),
    \* 65: let sum = fn(a, b) { let c = a + b; c; }; sum(1, 2) + sum(3, 4);
    VmTestCase("call", IntegerObject(10), Program(<<LetStatement("sum",
    FunctionLiteral(<<"a", "b">>, BlockStatement(<<LetStatement("c",
    InfixExpression(Identifier("a"), "+", Identifier("b"))),
    ExpressionStatement(Identifier("c"))>>))),
    ExpressionStatement(InfixExpression(CallExpression(Identifier("sum"),
    <<IntegerLiteral(1), IntegerLiteral(2)>>), "+",
    CallExpression(Identifier("sum"), <<IntegerLiteral(3),
    IntegerLiteral(4)>>)))>>)),
    \* 66: let globalNum = 10; let sum = fn(a, b) { let c = a + b; c + globalNum; }; let outer = fn() { sum(1, 2) + sum(3, 4) + globalNum; } outer() + globalNum;
    VmTestCase("call", IntegerObject(50), Program(<<LetStatement("globalNum",
    IntegerLiteral(10)), LetStatement("sum", FunctionLiteral(<<"a", "b">>,
    BlockStatement(<<LetStatement("c", InfixExpression(Identifier("a"), "+",
    Identifier("b"))), ExpressionStatement(InfixExpression(Identifier("c"),
    "+", Identifier("globalNum")))>>))), LetStatement("outer",
    FunctionLiteral(<<>>,
    BlockStatement(<<ExpressionStatement(InfixExpression(InfixExpression(CallExpression(Identifier("sum"),
    <<IntegerLiteral(1), IntegerLiteral(2)>>), "+",
    CallExpression(Identifier("sum"), <<IntegerLiteral(3),
    IntegerLiteral(4)>>)), "+", Identifier("globalNum")))>>))),
    ExpressionStatement(InfixExpression(CallExpression(Identifier("outer"),
    <<>>), "+", Identifier("globalNum")))>>)),
    \* 67: let returnsOneReturner = fn() { let returnsOne = fn() { 1; }; returnsOne; }; returnsOneReturner()();
    VmTestCase("call", IntegerObject(1),
    Program(<<LetStatement("returnsOneReturner", FunctionLiteral(<<>>,
    BlockStatement(<<LetStatement("returnsOne", FunctionLiteral(<<>>,
    BlockStatement(<<ExpressionStatement(IntegerLiteral(1))>>))),
    ExpressionStatement(Identifier("returnsOne"))>>))),
    ExpressionStatement(CallExpression(CallExpression(Identifier("returnsOneReturner"),
    <<>>), <<>>))>>)),
    \* 68: fn() { 1; }(1);
    VmTestCase("wrongargs", WrongArgsError(0, 1),
    Program(<<ExpressionStatement(CallExpression(FunctionLiteral(<<>>,
    BlockStatement(<<ExpressionStatement(IntegerLiteral(1))>>)),
    <<IntegerLiteral(1)>>))>>)),
    \* 69: fn(a) { a; }();
    VmTestCase("wrongargs", WrongArgsError(1, 0),
    Program(<<ExpressionStatement(CallExpression(FunctionLiteral(<<"a">>,
    BlockStatement(<<ExpressionStatement(Identifier("a"))>>)), <<>>))>>)),
    \* 70: fn(a, b) { a + b; }(1);
    VmTestCase("wrongargs", WrongArgsError(2, 1),
    Program(<<ExpressionStatement(CallExpression(FunctionLiteral(<<"a",
    "b">>,
    BlockStatement(<<ExpressionStatement(InfixExpression(Identifier("a"),
    "+", Identifier("b")))>>)), <<IntegerLiteral(1)>>))>>)),
    \* 71: let g = 7; let f = fn(a) { a; }; 1 + f(1, 2);
    VmTestCase("wrongargs", WrongArgsError(1, 2), Program(<<LetStatement("g",
    IntegerLiteral(7)), LetStatement("f", FunctionLiteral(<<"a">>,
    BlockStatement(<<ExpressionStatement(Identifier("a"))>>))),
    ExpressionStatement(InfixExpression(IntegerLiteral(1), "+",
    CallExpression(Identifier("f"), <<IntegerLiteral(1),
    IntegerLiteral(2)>>)))>>)),
    \* 72: 5(1)
    VmTestCase("noncallable", Unspecified,
    Program(<<ExpressionStatement(CallExpression(IntegerLiteral(5),
    <<IntegerLiteral(1)>>))>>)),
    \* 73: true()
    VmTestCase("noncallable", Unspecified,
    Program(<<ExpressionStatement(CallExpression(Boolean(TRUE), <<>>))>>)),
    \* 74: "f"(1, 2)
    VmTestCase("noncallable", Unspecified,
    Program(<<ExpressionStatement(CallExpression(StringLiteral("f"),
    <<IntegerLiteral(1), IntegerLiteral(2)>>))>>)),
    \* 75: [1](0)
    VmTestCase("noncallable", Unspecified,
    Program(<<ExpressionStatement(CallExpression(ArrayLiteral(<<IntegerLiteral(1)>>),
    <<IntegerLiteral(0)>>))>>)),
    \* 76: let f = fn() { 1 }; f()();
    VmTestCase("noncallable", Unspecified, Program(<<LetStatement("f",
    FunctionLiteral(<<>>,
    BlockStatement(<<ExpressionStatement(IntegerLiteral(1))>>))),
    ExpressionStatement(CallExpression(CallExpression(Identifier("f"), <<>>),
    <<>>))>>)),
    \* 77: len("four")
    VmTestCase("builtin", IntegerObject(4),
    Program(<<ExpressionStatement(CallExpression(Identifier("len"),
    <<StringLiteral("four")>>))>>)),
    \* 78: len(1)
    VmTestCase("builtin",
    ErrorObject("argument to \"len\" not supported, got ObjectType.INTEGER_OBJ"),
    Program(<<ExpressionStatement(CallExpression(Identifier("len"),
    <<IntegerLiteral(1)>>))>>)),
    \* 79: len([1, 2, 3])
    VmTestCase("builtin", IntegerObject(3),
    Program(<<ExpressionStatement(CallExpression(Identifier("len"),
    <<ArrayLiteral(<<IntegerLiteral(1), IntegerLiteral(2),
    IntegerLiteral(3)>>)>>))>>)),
    \* 80: puts("hello", "world")
    VmTestCase("builtin", NULL,
    Program(<<ExpressionStatement(CallExpression(Identifier("puts"),
    <<StringLiteral("hello"), StringLiteral("world")>>))>>)),
    \* 81: first([1, 2, 3])
    VmTestCase("builtin", IntegerObject(1),
    Program(<<ExpressionStatement(CallExpression(Identifier("first"),
    <<ArrayLiteral(<<IntegerLiteral(1), IntegerLiteral(2),
    IntegerLiteral(3)>>)>>))>>)),
    \* 82: first([])
    VmTestCase("builtin", NULL,
    Program(<<ExpressionStatement(CallExpression(Identifier("first"),
    <<ArrayLiteral(<<>>)>>))>>)),
    \* 83: last([1, 2, 3])
    VmTestCase("builtin", IntegerObject(3),
    Program(<<ExpressionStatement(CallExpression(Identifier("last"),
    <<ArrayLiteral(<<IntegerLiteral(1), IntegerLiteral(2),
    IntegerLiteral(3)>>)>>))>>)),
    \* 84: rest([1, 2, 3])
    VmTestCase("builtin", ArrayObject(<<IntegerObject(2),
    IntegerObject(3)>>),
    Program(<<ExpressionStatement(CallExpression(Identifier("rest"),
    <<ArrayLiteral(<<IntegerLiteral(1), IntegerLiteral(2),
    IntegerLiteral(3)>>)>>))>>)),
    \* 85: rest([])
    VmTestCase("builtin", NULL,
    Program(<<ExpressionStatement(CallExpression(Identifier("rest"),
    <<ArrayLiteral(<<>>)>>))>>)),
    \* 86: push([], 1)
    VmTestCase("builtin", ArrayObject(<<IntegerObject(1)>>),
    Program(<<ExpressionStatement(CallExpression(Identifier("push"),
    <<ArrayLiteral(<<>>), IntegerLiteral(1)>>))>>)),
    \* 87: let newClosure = fn(a) { fn() { a; }; }; let closure = newClosure(99); closure();
    VmTestCase("closure", IntegerObject(99),
    Program(<<LetStatement("newClosure", FunctionLiteral(<<"a">>,
    BlockStatement(<<ExpressionStatement(FunctionLiteral(<<>>,
    BlockStatement(<<ExpressionStatement(Identifier("a"))>>)))>>))),
    LetStatement("closure", CallExpression(Identifier("newClosure"),
    <<IntegerLiteral(99)>>)),
    ExpressionStatement(CallExpression(Identifier("closure"), <<>>))>>)),
    \* 88: let newAdder = fn(a, b) { fn(c) { a + b + c }; }; let adder = newAdder(1, 2); adder(8);
    VmTestCase("closure", IntegerObject(11),
    Program(<<LetStatement("newAdder", FunctionLiteral(<<"a", "b">>,
    BlockStatement(<<ExpressionStatement(FunctionLiteral(<<"c">>,
    BlockStatement(<<ExpressionStatement(InfixExpression(InfixExpression(Identifier("a"),
    "+", Identifier("b")), "+", Identifier("c")))>>)))>>))),
    LetStatement("adder", CallExpression(Identifier("newAdder"),
    <<IntegerLiteral(1), IntegerLiteral(2)>>)),
    ExpressionStatement(CallExpression(Identifier("adder"),
    <<IntegerLiteral(8)>>))>>)),
    \* 89: let newAdderOuter = fn(a, b) { let c = a + b; fn(d) { let e = d + c; fn(f) { e + f; }; }; }; let newAdderInner = newAdderOuter(1, 2) let adder = newAdderInner(3); adder(8);
    VmTestCase("closure", IntegerObject(14),
    Program(<<LetStatement("newAdderOuter", FunctionLiteral(<<"a", "b">>,
    BlockStatement(<<LetStatement("c", InfixExpression(Identifier("a"), "+",
    Identifier("b"))), ExpressionStatement(FunctionLiteral(<<"d">>,
    BlockStatement(<<LetStatement("e", InfixExpression(Identifier("d"), "+",
    Identifier("c"))), ExpressionStatement(FunctionLiteral(<<"f">>,
    BlockStatement(<<ExpressionStatement(InfixExpression(Identifier("e"),
    "+", Identifier("f")))>>)))>>)))>>))), LetStatement("newAdderInner",
    CallExpression(Identifier("newAdderOuter"), <<IntegerLiteral(1),
    IntegerLiteral(2)>>)), LetStatement("adder",
    CallExpression(Identifier("newAdderInner"), <<IntegerLiteral(3)>>)),
    ExpressionStatement(CallExpression(Identifier("adder"),
    <<IntegerLiteral(8)>>))>>)),
    \* 90: let newClosure = fn(a, b) { let one = fn() { a; }; let two = fn() { b; }; fn() { one() + two(); }; }; let closure = newClosure(9, 90); closure();
    VmTestCase("closure", IntegerObject(99),
    Program(<<LetStatement("newClosure", FunctionLiteral(<<"a", "b">>,
    BlockStatement(<<LetStatement("one", FunctionLiteral(<<>>,
    BlockStatement(<<ExpressionStatement(Identifier("a"))>>))),
    LetStatement("two", FunctionLiteral(<<>>,
    BlockStatement(<<ExpressionStatement(Identifier("b"))>>))),
    ExpressionStatement(FunctionLiteral(<<>>,
    BlockStatement(<<ExpressionStatement(InfixExpression(CallExpression(Identifier("one"),
    <<>>), "+", CallExpression(Identifier("two"), <<>>)))>>)))>>))),
    LetStatement("closure", CallExpression(Identifier("newClosure"),
    <<IntegerLiteral(9), IntegerLiteral(90)>>)),
    ExpressionStatement(CallExpression(Identifier("closure"), <<>>))>>)),
    \* 91: let countDown = fn(x) { if (x == 0) { return 0; } else { countDown(x - 1); } }; countDown(1);
    VmTestCase("recursion", IntegerObject(0),
    Program(<<LetStatement("countDown", FunctionLiteral(<<"x">>,
    BlockStatement(<<ExpressionStatement(IfExpression(InfixExpression(Identifier("x"),
    "==", IntegerLiteral(0)),
    BlockStatement(<<ReturnStatement(IntegerLiteral(0))>>),
    BlockStatement(<<ExpressionStatement(CallExpression(Identifier("countDown"),
    <<InfixExpression(Identifier("x"), "-", IntegerLiteral(1))>>))>>)))>>))),
    ExpressionStatement(CallExpression(Identifier("countDown"),
    <<IntegerLiteral(1)>>))>>)),
    \* 92: let countDown = fn(x) { if (x == 0) { return 0; } else { countDown(x - 1); } }; let wrapper = fn() { countDown(1); }; wrapper();
    VmTestCase("recursion", IntegerObject(0),
    Program(<<LetStatement("countDown", FunctionLiteral(<<"x">>,
    BlockStatement(<<ExpressionStatement(IfExpression(InfixExpression(Identifier("x"),
    "==", IntegerLiteral(0)),
    BlockStatement(<<ReturnStatement(IntegerLiteral(0))>>),
    BlockStatement(<<ExpressionStatement(CallExpression(Identifier("countDown"),
    <<InfixExpression(Identifier("x"), "-", IntegerLiteral(1))>>))>>)))>>))),
    LetStatement("wrapper", FunctionLiteral(<<>>,
    BlockStatement(<<ExpressionStatement(CallExpression(Identifier("countDown"),
    <<IntegerLiteral(1)>>))>>))),
    ExpressionStatement(CallExpression(Identifier("wrapper"), <<>>))>>)),
    \* 93: let wrapper = fn() { let countDown = fn(x) { if (x == 0) { return 0; } else { countDown(x - 1); } }; countDown(1); }; wrapper();
    VmTestCase("recursion", IntegerObject(0),
    Program(<<LetStatement("wrapper", FunctionLiteral(<<>>,
    BlockStatement(<<LetStatement("countDown", FunctionLiteral(<<"x">>,
    BlockStatement(<<ExpressionStatement(IfExpression(InfixExpression(Identifier("x"),
    "==", IntegerLiteral(0)),
    BlockStatement(<<ReturnStatement(IntegerLiteral(0))>>),
    BlockStatement(<<ExpressionStatement(CallExpression(Identifier("countDown"),
    <<InfixExpression(Identifier("x"), "-", IntegerLiteral(1))>>))>>)))>>))),
    ExpressionStatement(CallExpression(Identifier("countDown"),
    <<IntegerLiteral(1)>>))>>))),
    ExpressionStatement(CallExpression(Identifier("wrapper"), <<>>))>>)),
    \* 94: let fibonacci = fn(x) { if (x == 0) { return 0; } else { if (x == 1) { return 1; } else { fibonacci(x - 1) + fibonacci(x - 2); } } }; fibonacci(15);
    VmTestCase("recursion", IntegerObject(610),
    Program(<<LetStatement("fibonacci", FunctionLiteral(<<"x">>,
    BlockStatement(<<ExpressionStatement(IfExpression(InfixExpression(Identifier("x"),
    "==", IntegerLiteral(0)),
    BlockStatement(<<ReturnStatement(IntegerLiteral(0))>>),
    BlockStatement(<<ExpressionStatement(IfExpression(InfixExpression(Identifier("x"),
    "==", IntegerLiteral(1)),
    BlockStatement(<<ReturnStatement(IntegerLiteral(1))>>),
    BlockStatement(<<ExpressionStatement(InfixExpression(CallExpression(Identifier("fibonacci"),
    <<InfixExpression(Identifier("x"), "-", IntegerLiteral(1))>>), "+",
    CallExpression(Identifier("fibonacci"),
    <<InfixExpression(Identifier("x"), "-",
    IntegerLiteral(2))>>)))>>)))>>)))>>))),
    ExpressionStatement(CallExpression(Identifier("fibonacci"),
    <<IntegerLiteral(15)>>))>>)),
    \* 95: let f = fn(g) { g(g) }; f(f);
    VmTestCase("deep", Unspecified, Program(<<LetStatement("f",
    FunctionLiteral(<<"g">>,
    BlockStatement(<<ExpressionStatement(CallExpression(Identifier("g"),
    <<Identifier("g")>>))>>))),
    ExpressionStatement(CallExpression(Identifier("f"),
    <<Identifier("f")>>))>>)),
    \* 96: let f = fn(g) { 1 + g(g) }; f(f);
    VmTestCase("deep", Unspecified, Program(<<LetStatement("f",
    FunctionLiteral(<<"g">>,
    BlockStatement(<<ExpressionStatement(InfixExpression(IntegerLiteral(1),
    "+", CallExpression(Identifier("g"), <<Identifier("g")>>)))>>))),
    ExpressionStatement(CallExpression(Identifier("f"),
    <<Identifier("f")>>))>>)),
    \* 97: let f = fn(g) { let a = 1; let b = 2; let c = 3; a + g(g) }; f(f);
    VmTestCase("deep", Unspecified, Program(<<LetStatement("f",
    FunctionLiteral(<<"g">>, BlockStatement(<<LetStatement("a",
    IntegerLiteral(1)), LetStatement("b", IntegerLiteral(2)),
    LetStatement("c", IntegerLiteral(3)),
    ExpressionStatement(InfixExpression(Identifier("a"), "+",
    CallExpression(Identifier("g"), <<Identifier("g")>>)))>>))),
    ExpressionStatement(CallExpression(Identifier("f"),
    <<Identifier("f")>>))>>)),
    \* 98: return 5;
    VmTestCase("toplevelreturn", Unspecified,
    Program(<<ReturnStatement(IntegerLiteral(5))>>))
  >>


\* the most parameters and arguments of the generated calls
MaxParams == 2

ParamNames == <<"a", "b", "c", "d">>

\* fn(a, ...) { 0 + a + ... }(1, ..., n) with m parameters and n arguments
CallProgram(m, n) ==
    LET sum[i \in 0..m] ==
            IF i = 0 THEN IntegerLiteral(0)
            ELSE InfixExpression(sum[i - 1], "+", Identifier(ParamNames[i]))
        fn == FunctionLiteral([i \in 1..m |-> ParamNames[i]],
                              BlockStatement(<<ExpressionStatement(sum[m])>>))
        call == CallExpression(fn, [i \in 1..n |-> IntegerLiteral(i)])
    IN VmTestCase(IF m = n THEN "call" ELSE "wrongargs",
                  IF m = n THEN IntegerObject((n * (n + 1)) \div 2)
                  ELSE WrongArgsError(m, n),
                  Program(<<ExpressionStatement(call)>>))

CallPrograms ==
    [k \in 1..((MaxParams + 1) * (MaxParams + 1)) |->
        CallProgram((k - 1) \div (MaxParams + 1), (k - 1) % (MaxParams + 1))]

\* Bytecode put together by hand, as VirtualMachine(bytecode) accepts it: a
\* call of the builtin registered under `name`, the builtin and its
\* arguments loaded from the constants
BuiltinCall(name, expected, arguments) ==
    LET load[i \in 0..Len(arguments)] ==
            IF i = 0 THEN make("OpConstant", <<0>>)
            ELSE load[i - 1] \o make("OpConstant", <<i>>)
    IN VmTestCase("builtincall", expected,
           Bytecode(load[Len(arguments)] \o make("OpCall", <<Len(arguments)>>)
                        \o make("OpPop", <<>>),
                    <<BuiltinObject(name)>> \o arguments))

BytecodePrograms ==
    <<BuiltinCall("len", IntegerObject(4), <<StringObject("four")>>),
      BuiltinCall("first", NULL, <<ArrayObject(<<>>)>>),
      BuiltinCall("push", ArrayObject(<<IntegerObject(1)>>),
                  <<ArrayObject(<<>>), IntegerObject(1)>>)>>

\* Inputs for what the tests leave out: keys that cannot be hashed, division
\* of negative integers, operations on operands of the wrong type, each
\* followed by a further statement, and a function that names a parameter
\* of the function around it
EdgePrograms ==
  <<
    \* {[1]: 2}
    VmTestCase("edge", Unspecified,
    Program(<<ExpressionStatement(HashLiteral(<<<<ArrayLiteral(<<IntegerLiteral(1)>>),
    IntegerLiteral(2)>>>>))>>)),
    \* {1: 2}[[1]]
    VmTestCase("edge", Unspecified,
    Program(<<ExpressionStatement(IndexExpression(HashLiteral(<<<<IntegerLiteral(1),
    IntegerLiteral(2)>>>>), ArrayLiteral(<<IntegerLiteral(1)>>)))>>)),
    \* -7 / 2
    VmTestCase("edge", Unspecified,
    Program(<<ExpressionStatement(InfixExpression(PrefixExpression("-",
    IntegerLiteral(7)), "/", IntegerLiteral(2)))>>)),
    \* 7 / -2
    VmTestCase("edge", Unspecified,
    Program(<<ExpressionStatement(InfixExpression(IntegerLiteral(7), "/",
    PrefixExpression("-", IntegerLiteral(2))))>>)),
    \* 1 + true; 2
    VmTestCase("edge", Unspecified,
    Program(<<ExpressionStatement(InfixExpression(IntegerLiteral(1), "+",
    Boolean(TRUE))), ExpressionStatement(IntegerLiteral(2))>>)),
    \* -true; 2
    VmTestCase("edge", Unspecified,
    Program(<<ExpressionStatement(PrefixExpression("-", Boolean(TRUE))),
    ExpressionStatement(IntegerLiteral(2))>>)),
    \* true > false; 2
    VmTestCase("edge", Unspecified,
    Program(<<ExpressionStatement(InfixExpression(Boolean(TRUE), ">",
    Boolean(FALSE))), ExpressionStatement(IntegerLiteral(2))>>)),
    \* 10 + fn(a) { fn() { a; a; 5 } }(2)()
    VmTestCase("edge", Unspecified,
    Program(<<ExpressionStatement(InfixExpression(IntegerLiteral(10), "+",
    CallExpression(CallExpression(FunctionLiteral(<<"a">>,
    BlockStatement(<<ExpressionStatement(FunctionLiteral(<<>>,
    BlockStatement(<<ExpressionStatement(Identifier("a")),
    ExpressionStatement(Identifier("a")),
    ExpressionStatement(IntegerLiteral(5))>>)))>>)),
    <<IntegerLiteral(2)>>), <<>>)))>>))
  >>

Programs == TestPrograms \o CallPrograms \o BytecodePrograms \o EdgePrograms

(***************************************************************************)
(* The run of a program: Compiler().compile(program), and, when compile    *)
(* returned no error, VirtualMachine(compiler.bytecode()).run().           *)
(***************************************************************************)
Compiled(p) == compile(Compiler, Programs[p].input)

\* the bytecode the machine is given: the compiler's, or the one put together
\* by hand
Loaded(p) ==
    IF Programs[p].input.type = "Bytecode" THEN Programs[p].input
    ELSE bytecode(Compiled(p))

\* VirtualMachine.__init__
main_frame(p) == Frame(CompiledFunction(Loaded(p).instructions, 0, 0), 0)

\* the history before any step
\* no Evaluator has been made
NoEvaluator == [result |-> [t |-> "None"]]

\* no instruction is under test
NoEncoding == [step |-> "none"]

NoStep ==
    [op |-> "None", ip |-> -1, operand |-> 0, sp |-> 0, frames_index |-> 1,
     globals |-> <<>>, top |-> PyNone, call |-> <<>>,
     prev |-> [op |-> "None", top |-> PyNone]]

Init ==
    /\ prog \in 1..Len(Programs)
    /\ compile_err = Compiled(prog).err
    /\ constants = Loaded(prog).constants
    /\ stack = [i \in 0..(STACK_SIZE - 1) |-> PyNone]
    /\ sp = 0
    /\ globals = <<>>
    /\ frames = [i \in 0..(MAX_FRAMES - 1) |-> IF i = 0 THEN main_frame(prog) ELSE PyNone]
    /\ frames_index = 1
    /\ status = IF Compiled(prog).err = NoErr THEN "running" ELSE "compile_error"
    /\ err = NoErr
    /\ calls = <<>>
    /\ last = NoStep
    /\ compiler = Compiled(prog)
    /\ symtabs = <<>>
    /\ program = Programs[prog].input
    /\ evaluator = NoEvaluator
    /\ encoding = NoEncoding

Next ==
    \/ ExecOpConstant
    \/ ExecOpTrue
    \/ ExecOpFalse
    \/ ExecOpNull
    \/ ExecOpPop
    \/ ExecBinaryOperation
    \/ ExecComparison
    \/ ExecOpBang
    \/ ExecOpMinus
    \/ ExecOpJump
    \/ ExecOpJumpNotTruthy
    \/ ExecOpSetGlobal
    \/ ExecOpGetGlobal
    \/ ExecOpArray
    \/ ExecOpHash
    \/ ExecOpIndex
    \/ ExecOpCall
    \/ ExecOpReturnValue
    \/ ExecOpReturn
    \/ ExecOpSetLocal
    \/ ExecOpGetLocal
    \/ ExecNoBranch
    \/ FetchInvalid
    \/ RunReturns
    \/ RunNoFrame

Spec == Init /\ [][Next]_vars

(***************************************************************************)
(* The symbol table on its own, as test/test_symbol_table.py uses it: a    *)
(* chain of tables, each enclosed in the one before it.  As in the tests   *)
(* and in the compiler, builtins are defined in the root table, names are  *)
(* defined in the innermost table and a builtin keeps its name; resolve is *)
(* called on any table of the chain.                                       *)
(***************************************************************************)
\* the most tables enclosed and names defined altogether, and the number of
\* builtins registered
MaxSymbols == 4
MaxBuiltins == 1

DefNames == {"a", "b"}
SymNames == DefNames \cup {builtins[i] : i \in 1..MaxBuiltins}

RECURSIVE SymbolCount(_, _)
\* the tables enclosed, the definitions made and the function names bound in
\* the first k tables: what the bound MaxSymbols caps
SymbolCount(tables, k) ==
    IF k = 0 THEN 0
    ELSE SymbolCount(tables, k - 1) + (IF k > 1 THEN 1 ELSE 0)
         + tables[k].num_definitions
         + Cardinality({n \in DOMAIN tables[k].store :
                           tables[k].store[n].scope = FunctionScope})

SymRoom == SymbolCount(symtabs, Len(symtabs)) < MaxSymbols

SymInit ==
    /\ symtabs = <<SymbolTable>>
    /\ program = NoNode
    /\ evaluator = NoEvaluator
    /\ encoding = NoEncoding
    /\ prog = 1
    /\ compile_err = NoErr
    /\ compiler = Compiler
    /\ status = "symbols"
    /\ constants = <<>>
    /\ stack = <<>>
    /\ sp = 0
    /\ globals = <<>>
    /\ frames = <<>>
    /\ frames_index = 0
    /\ err = NoErr
    /\ calls = <<0>>
    /\ last = NoStep

\* what the calls on the tables leave alone; here calls is history of
\* another kind: calls[k] is how many times define was called on symtabs[k]
sym_vars == <<prog, compile_err, compiler, status, constants, stack, sp,
              globals, frames, frames_index, err, last, program, evaluator,
              encoding>>

\* SymbolTable(outer=symtabs[Len(symtabs)])
SymEnclose ==
    /\ SymRoom
    /\ symtabs' = Append(symtabs, SymbolTable)
    /\ calls' = Append(calls, 0)
    /\ UNCHANGED sym_vars

SymDefine ==
    \E name \in DefNames :
        /\ SymRoom
        /\ symtabs' = define(symtabs, Len(symtabs), name)
        /\ calls' = [calls EXCEPT ![Len(symtabs)] = @ + 1]
        /\ UNCHANGED sym_vars

SymDefineBuiltin ==
    \E i \in 1..MaxBuiltins :
        /\ symtabs' = define_builtin(symtabs, 1, i - 1, builtins[i])
        /\ UNCHANGED <<prog, compile_err, compiler, status, vm_vars, program,
                    evaluator, encoding>>

SymDefineFunctionName ==
    \E name \in DefNames :
        /\ SymRoom
        /\ symtabs' = define_function_name(symtabs, Len(symtabs), name)
        /\ UNCHANGED <<prog, compile_err, compiler, status, vm_vars, program,
                    evaluator, encoding>>

SymResolve ==
    \E k \in 1..Len(symtabs), name \in SymNames :
        /\ symtabs' = resolve(symtabs, k, name).tables
        /\ UNCHANGED <<prog, compile_err, compiler, status, vm_vars, program,
                    evaluator, encoding>>

SymNext ==
    \/ SymEnclose
    \/ SymDefine
    \/ SymDefineBuiltin
    \/ SymDefineFunctionName
    \/ SymResolve

SymSpec == SymInit /\ [][SymNext]_vars

(***************************************************************************)
(* Properties.  Completed: run returned None.  Callee: the value the       *)
(* latest OpCall found in the callee's slot (call_function writes no       *)
(* stack slot, so the slot still holds it).                                *)
(***************************************************************************)
Ended == status \in {"returned", "raised"}
Completed == status = "returned" /\ err = NoErr
Expected == Programs[prog].expected
Callee == StackAt(Self, last.sp - 1 - last.operand)
CalleeIsCompiledFunction == last.op = "OpCall" /\ Callee.t = "COMPILED_FUNCTION"
Falsy(x) == x \in {NULL, FALSE_}

\* C1: a function bound by let can call itself by its own name: compiling
\* a program of the recursion tests returns no error, and its run completes
\* with the value the test expects as the last popped stack element (610
\* for fibonacci(15)).
C1_RecursionByName ==
    Programs[prog].kind = "recursion" =>
        /\ compile_err = NoErr
        /\ Ended => Completed /\ last_popped_stack_elem(Self) = Expected

\* C2: a function created inside a call keeps the parameters and locals of
\* the enclosing function that it references: the run of a program of the
\* closure tests completes with the value the test expects as the last
\* popped stack element (11 for newAdder(1, 2) then adder(8)).
C2_ClosuresKeepCapturedValues ==
    Programs[prog].kind = "closure" =>
        /\ compile_err = NoErr
        /\ Ended => Completed /\ last_popped_stack_elem(Self) = Expected

C4_WrongNumberOfArguments ==
    (CalleeIsCompiledFunction /\ Callee.num_parameters # last.operand) =>
        /\ status = "returned"
        /\ err = WrongArgsError(Callee.num_parameters, last.operand)
        /\ sp = last.sp
        /\ frames_index = last.frames_index
        /\ globals = last.globals

\* a function of one parameter was called with two arguments, below a
\* pending operand and with a global assigned
C4_Witness ==
    /\ CalleeIsCompiledFunction
    /\ Callee.num_parameters = 1
    /\ last.operand = 2
    /\ globals # <<>>
    /\ status = "returned"

\* C5: OpCall n on a Builtin passes it the n arguments, removes the n + 1
\* slots of callee and arguments and pushes the builtin's result (NULL when
\* it returns nothing); no frame is pushed.
C5_BuiltinCall ==
    (last.op = "OpCall" /\ Callee.t = "BUILTIN") =>
        /\ err = NoErr
        /\ frames_index = last.frames_index
        /\ sp = last.sp - last.operand
        /\ Top(Self) = Expected

\* C6: OpCall on a value that is neither a compiled function nor a Builtin
\* makes run return "calling non-function" without pushing a frame; OpCall
\* on a compiled function or on a Builtin never gives that error.
C6_CallingNonFunction ==
    last.op = "OpCall" =>
        IF Callee.t \in {"COMPILED_FUNCTION", "BUILTIN"}
        THEN err # VmError("calling non-function")
        ELSE /\ status = "returned"
             /\ err = VmError("calling non-function")
             /\ frames_index = last.frames_index

\* C7: the frame stack holds MAX_FRAMES frames: frames_index never exceeds
\* it, and an OpCall that needs one frame more makes run return the error
\* "stack overflow" instead of raising an exception of the host.
C7_StackOverflow ==
    /\ frames_index <= MAX_FRAMES
    /\ (/\ CalleeIsCompiledFunction
        /\ Callee.num_parameters = last.operand
        /\ last.frames_index = MAX_FRAMES) =>
           status = "returned" /\ err = VmError("stack overflow")

\* C8: stack discipline.  When the run of a program the compiler accepted
\* completes without error, every pop found a value pushed before it: sp is
\* not below 0, whatever the blocks of the program's if expressions hold.
C8_StackDiscipline ==
    (Programs[prog].input.type = "Program" /\ compile_err = NoErr /\ Completed) =>
        sp >= 0

\* C9: truthiness law for OpBang.  One OpBang leaves TRUE or FALSE on the
\* stack, TRUE exactly for NULL and FALSE; two OpBang in a row leave TRUE
\* exactly when the value they were applied to is neither NULL nor FALSE.
C9_BangTruthiness ==
    /\ last.op = "OpBang" =>
           /\ err = NoErr
           /\ sp = last.sp
           /\ Top(Self) \in {TRUE_, FALSE_}
           /\ Top(Self) = TRUE_ <=> Falsy(last.top)
    /\ (last.op = "OpBang" /\ last.prev.op = "OpBang") =>
           (Top(Self) = TRUE_ <=> ~Falsy(last.prev.top))

\* !! was applied to the integer 0 and left TRUE
C9_Witness ==
    /\ last.op = "OpBang"
    /\ last.prev.op = "OpBang"
    /\ last.prev.top = IntegerObject(0)
    /\ Top(Self) = TRUE_

\* C10: OpJumpNotTruthy pops one value and sets ip to its target - 1
\* exactly when the value is NULL or FALSE, and falls through to the next
\* instruction otherwise; it jumps exactly for the values OpBang turns into
\* TRUE; and the if expressions of the conditional tests evaluate to the
\* value the tests expect.
C10_JumpNotTruthy ==
    /\ last.op = "OpJumpNotTruthy" =>
           /\ err = NoErr
           /\ sp = last.sp - 1
           /\ current_frame(Self).ip =
                  IF Falsy(last.top) THEN last.operand - 1 ELSE last.ip + 2
           /\ Falsy(last.top) <=> bang_result(last.top) = TRUE_
    /\ (Programs[prog].kind = "cond" /\ Expected # Unspecified /\ Ended) =>
           Completed /\ last_popped_stack_elem(Self) = Expected

\* the condition of an if was the integer 0 and the consequence was taken
C10_Witness ==
    /\ last.op = "OpJumpNotTruthy"
    /\ last.top = IntegerObject(0)
    /\ current_frame(Self).ip = last.ip + 2

(***************************************************************************)
(* The compiler on its own, as test/test_compiler.py uses it: a fresh      *)
(* Compiler compiles one program.  The inputs are those of the virtual     *)
(* machine's tests and inputs of test_compiler.py, with conditionals       *)
(* nested in both branches and in a function body.                         *)
(***************************************************************************)
CompilerTests ==
  <<
    \* if (true) { 10 }; 3333;
    Program(<<ExpressionStatement(IfExpression(Boolean(TRUE),
        BlockStatement(<<ExpressionStatement(IntegerLiteral(10))>>), NoNode)),
      ExpressionStatement(IntegerLiteral(3333))>>),
    \* if (true) { 10 } else { 20 }; 3333;
    Program(<<ExpressionStatement(IfExpression(Boolean(TRUE),
        BlockStatement(<<ExpressionStatement(IntegerLiteral(10))>>),
        BlockStatement(<<ExpressionStatement(IntegerLiteral(20))>>))),
      ExpressionStatement(IntegerLiteral(3333))>>),
    \* if (true) { if (false) { 1 } else { 2 } } else { if (true) { 3 } }
    Program(<<ExpressionStatement(IfExpression(Boolean(TRUE),
        BlockStatement(<<ExpressionStatement(IfExpression(Boolean(FALSE),
            BlockStatement(<<ExpressionStatement(IntegerLiteral(1))>>),
            BlockStatement(<<ExpressionStatement(IntegerLiteral(2))>>)))>>),
        BlockStatement(<<ExpressionStatement(IfExpression(Boolean(TRUE),
            BlockStatement(<<ExpressionStatement(IntegerLiteral(3))>>),
            NoNode))>>)))>>),
    \* fn() { if (true) { if (false) { 1 } } }
    Program(<<ExpressionStatement(FunctionLiteral(<<>>,
        BlockStatement(<<ExpressionStatement(IfExpression(Boolean(TRUE),
            BlockStatement(<<ExpressionStatement(IfExpression(Boolean(FALSE),
                BlockStatement(<<ExpressionStatement(IntegerLiteral(1))>>),
                NoNode))>>),
            NoNode))>>)))>>),
    \* len([]); push([], 1);
    Program(<<ExpressionStatement(CallExpression(Identifier("len"),
        <<ArrayLiteral(<<>>)>>)),
      ExpressionStatement(CallExpression(Identifier("push"),
        <<ArrayLiteral(<<>>), IntegerLiteral(1)>>))>>),
    \* fn() { len([]) }
    Program(<<ExpressionStatement(FunctionLiteral(<<>>,
        BlockStatement(<<ExpressionStatement(CallExpression(Identifier("len"),
            <<ArrayLiteral(<<>>)>>))>>)))>>),
    \* fn(a) { fn(b) { a + b } }
    Program(<<ExpressionStatement(FunctionLiteral(<<"a">>,
        BlockStatement(<<ExpressionStatement(FunctionLiteral(<<"b">>,
            BlockStatement(<<ExpressionStatement(InfixExpression(
                Identifier("a"), "+", Identifier("b")))>>)))>>)))>>),
    \* let one = 1; one;
    Program(<<LetStatement("one", IntegerLiteral(1)),
      ExpressionStatement(Identifier("one"))>>),
    \* fn() { let num = 55; num }
    Program(<<ExpressionStatement(FunctionLiteral(<<>>,
        BlockStatement(<<LetStatement("num", IntegerLiteral(55)),
          ExpressionStatement(Identifier("num"))>>)))>>),
    \* fn() { 5 + 10 }
    Program(<<ExpressionStatement(FunctionLiteral(<<>>,
        BlockStatement(<<ExpressionStatement(InfixExpression(
            IntegerLiteral(5), "+", IntegerLiteral(10)))>>)))>>),
    \* puts(1) < puts(2)
    Program(<<ExpressionStatement(InfixExpression(
        CallExpression(Identifier("puts"), <<IntegerLiteral(1)>>), "<",
        CallExpression(Identifier("puts"), <<IntegerLiteral(2)>>)))>>),
    \* fn() { return 5 + 10 }
    Program(<<ExpressionStatement(FunctionLiteral(<<>>,
        BlockStatement(<<ReturnStatement(InfixExpression(
            IntegerLiteral(5), "+", IntegerLiteral(10)))>>)))>>)
  >>

\* the programs given to the compiler
\* Programs the compiler rejects: a name that is not defined, or an operator
\* the compiler does not know (in an AST built by hand: the parser produces
\* none), in each place an expression can stand, with a statement after it
ErrorTests ==
  <<
    \* foo; 1;
    Program(<<ExpressionStatement(Identifier("foo")),
      ExpressionStatement(IntegerLiteral(1))>>),
    \* 1 % 2; 3;
    Program(<<ExpressionStatement(InfixExpression(IntegerLiteral(1), "%",
        IntegerLiteral(2))),
      ExpressionStatement(IntegerLiteral(3))>>),
    \* ~1; 3;
    Program(<<ExpressionStatement(PrefixExpression("~", IntegerLiteral(1))),
      ExpressionStatement(IntegerLiteral(3))>>),
    \* 1 + (2 * foo); 3;
    Program(<<ExpressionStatement(InfixExpression(IntegerLiteral(1), "+",
        InfixExpression(IntegerLiteral(2), "*", Identifier("foo")))),
      ExpressionStatement(IntegerLiteral(3))>>),
    \* foo < 1; 3;
    Program(<<ExpressionStatement(InfixExpression(Identifier("foo"), "<",
        IntegerLiteral(1))),
      ExpressionStatement(IntegerLiteral(3))>>),
    \* !(-foo); 3;
    Program(<<ExpressionStatement(PrefixExpression("!",
        PrefixExpression("-", Identifier("foo")))),
      ExpressionStatement(IntegerLiteral(3))>>),
    \* if (foo) { 1 } else { 2 }; 3;
    Program(<<ExpressionStatement(IfExpression(Identifier("foo"),
        BlockStatement(<<ExpressionStatement(IntegerLiteral(1))>>),
        BlockStatement(<<ExpressionStatement(IntegerLiteral(2))>>))),
      ExpressionStatement(IntegerLiteral(3))>>),
    \* if (true) { foo; 1 } else { 2 }; 3;
    Program(<<ExpressionStatement(IfExpression(Boolean(TRUE),
        BlockStatement(<<ExpressionStatement(Identifier("foo")),
                         ExpressionStatement(IntegerLiteral(1))>>),
        BlockStatement(<<ExpressionStatement(IntegerLiteral(2))>>))),
      ExpressionStatement(IntegerLiteral(3))>>),
    \* if (true) { 1 } else { foo }; 3;
    Program(<<ExpressionStatement(IfExpression(Boolean(TRUE),
        BlockStatement(<<ExpressionStatement(IntegerLiteral(1))>>),
        BlockStatement(<<ExpressionStatement(Identifier("foo"))>>))),
      ExpressionStatement(IntegerLiteral(3))>>),
    \* let a = foo; a;
    Program(<<LetStatement("a", Identifier("foo")),
      ExpressionStatement(Identifier("a"))>>),
    \* return foo; 3;
    Program(<<ReturnStatement(Identifier("foo")),
      ExpressionStatement(IntegerLiteral(3))>>),
    \* [1, foo, 2]; 3;
    Program(<<ExpressionStatement(ArrayLiteral(<<IntegerLiteral(1),
        Identifier("foo"), IntegerLiteral(2)>>)),
      ExpressionStatement(IntegerLiteral(3))>>),
    \* {1: foo, 2: 3}; 3;
    Program(<<ExpressionStatement(HashLiteral(<<
        <<IntegerLiteral(1), Identifier("foo")>>,
        <<IntegerLiteral(2), IntegerLiteral(3)>>>>)),
      ExpressionStatement(IntegerLiteral(3))>>),
    \* [1, 2][foo]; 3;
    Program(<<ExpressionStatement(IndexExpression(ArrayLiteral(<<IntegerLiteral(1),
        IntegerLiteral(2)>>), Identifier("foo"))),
      ExpressionStatement(IntegerLiteral(3))>>),
    \* fn(a) { a + foo; 1 }; 3;
    Program(<<ExpressionStatement(FunctionLiteral(<<"a">>,
        BlockStatement(<<ExpressionStatement(InfixExpression(Identifier("a"),
                            "+", Identifier("foo"))),
                         ExpressionStatement(IntegerLiteral(1))>>))),
      ExpressionStatement(IntegerLiteral(3))>>),
    \* foo(1); 3;
    Program(<<ExpressionStatement(CallExpression(Identifier("foo"),
        <<IntegerLiteral(1)>>)),
      ExpressionStatement(IntegerLiteral(3))>>),
    \* len(1, foo, 2); 3;
    Program(<<ExpressionStatement(CallExpression(Identifier("len"),
        <<IntegerLiteral(1), Identifier("foo"), IntegerLiteral(2)>>)),
      ExpressionStatement(IntegerLiteral(3))>>)
  >>

CompileInputs ==
    LET parsed == SelectSeq(Programs, LAMBDA p : p.input.type = "Program")
    IN [i \in 1..Len(parsed) |-> parsed[i].input] \o CompilerTests \o ErrorTests

\* hash literals of at most MaxPairs pairs; the parser keeps a pair for every
\* key written (two key nodes are never equal: each holds its own Token), in
\* the order written
MaxPairs == 2
HashKeys == {IntegerLiteral(1), IntegerLiteral(2), IntegerLiteral(10), Boolean(TRUE)}
HashValues == {IntegerLiteral(7), IntegerLiteral(8)}
HashPairs == UNION {[1..n -> HashKeys \X HashValues] : n \in 0..MaxPairs}
HashProgram(pairs) == Program(<<ExpressionStatement(HashLiteral(pairs))>>)

\* compiler = Compiler(), before compile is called on one of CompileInputs
\* (prog is its index) or on a hash literal (prog is 0)
CompileInit ==
    /\ \/ /\ prog \in 1..Len(CompileInputs)
          /\ program = CompileInputs[prog]
       \/ /\ prog = 0
          /\ program \in {HashProgram(pairs) : pairs \in HashPairs}
    /\ evaluator = NoEvaluator
    /\ encoding = NoEncoding
    /\ compiler = Compiler
    /\ compile_err = NoErr
    /\ status = "parsed"
    /\ constants = <<>>
    /\ stack = <<>>
    /\ sp = 0
    /\ globals = <<>>
    /\ frames = <<>>
    /\ frames_index = 0
    /\ err = NoErr
    /\ calls = <<>>
    /\ last = NoStep
    /\ symtabs = <<>>

\* err = compiler.compile(program)
CompileProgram ==
    /\ status = "parsed"
    /\ compiler' = compile(compiler, program)
    /\ compile_err' = compiler'.err
    /\ status' = IF compiler'.err = NoErr THEN "compiled" ELSE "compile_error"
    /\ UNCHANGED <<prog, symtabs, vm_vars, program, evaluator, encoding>>

CompileNext == CompileProgram

CompileSpec == CompileInit /\ [][CompileNext]_vars

(***************************************************************************)
(* monkey/builtins.py: the functions, on the list of their arguments.  A   *)
(* function that ends in `return None` gives PyNone.                       *)
(***************************************************************************)
new_error(message) == ErrorObject(message)

_monkey_len(args) ==
    IF Len(args) # 1 THEN new_error("wrong number of arguments")
    ELSE IF args[1].t = "STRING" THEN IntegerObject(Len(args[1].sv))
    ELSE IF args[1].t = "ARRAY" THEN IntegerObject(Len(args[1].elements))
    ELSE new_error("argument to \"len\" not supported")

_monkey_first(args) ==
    IF Len(args) # 1 THEN new_error("wrong number of arguments")
    ELSE IF args[1].t # "ARRAY" THEN new_error("argument to \"first\" must be ARRAY")
    ELSE IF Len(args[1].elements) > 0 THEN args[1].elements[1]
    ELSE PyNone

_monkey_last(args) ==
    IF Len(args) # 1 THEN new_error("wrong number of arguments")
    ELSE IF args[1].t # "ARRAY" THEN new_error("argument to \"last\" must be ARRAY")
    ELSE IF Len(args[1].elements) > 0
    THEN args[1].elements[Len(args[1].elements)]
    ELSE PyNone

_monkey_rest(args) ==
    IF Len(args) # 1 THEN new_error("wrong number of arguments")
    ELSE IF args[1].t # "ARRAY" THEN new_error("argument to \"rest\" must be ARRAY")
    ELSE IF Len(args[1].elements) > 0
    THEN ArrayObject(Slice(args[1].elements, 1, Len(args[1].elements)))
    ELSE PyNone

_monkey_push(args) ==
    IF Len(args) # 2 THEN new_error("wrong number of arguments")
    ELSE IF args[1].t # "ARRAY" THEN new_error("argument to \"push\" must be ARRAY")
    ELSE ArrayObject(args[1].elements \o <<args[2]>>)

\* what it prints is left out
_monkey_puts(args) == PyNone

\* BuiltinObject.fn(args), for the builtin registered under a name
builtin_fn(name, args) ==
    CASE name = "len" -> _monkey_len(args)
      [] name = "puts" -> _monkey_puts(args)
      [] name = "first" -> _monkey_first(args)
      [] name = "last" -> _monkey_last(args)
      [] name = "rest" -> _monkey_rest(args)
      [] name = "push" -> _monkey_push(args)

(***************************************************************************)
(* monkey/object.py: Environment and the objects of the evaluator.  The    *)
(* environments live in a list, envs; an environment is named by its       *)
(* position in it, and outer is 0 for None.                                *)
(***************************************************************************)
ReturnValue(value) == [t |-> "RETURN_VALUE", value |-> value]
FunctionObject(parameters, body, env) ==
    [t |-> "FUNCTION", parameters |-> parameters, body |-> body, env |-> env]
Environment(outer) == [store |-> <<>>, outer |-> outer]

is_error(obj) == obj.t = "ERROR"

RECURSIVE env_get(_, _, _)
\* Environment.get
env_get(envs, env, name) ==
    IF \E i \in 1..Len(envs[env].store) : envs[env].store[i][1] = name
    THEN HashGet(envs[env].store, name)
    ELSE IF envs[env].outer # 0 THEN env_get(envs, envs[env].outer, name)
    ELSE PyNone

\* Environment.set
env_set(envs, env, name, thing) ==
    [envs EXCEPT ![env].store = HashSet(@, name, thing)]

(***************************************************************************)
(* monkey/evaluator.py.  An evaluation is a record: envs, the environments *)
(* made so far; result, what the latest call of evaluate returned; exc,    *)
(* the exception raised, if any.  errors and started are history: each     *)
(* ErrorObject made, with the number of statements of the program begun    *)
(* when it was made, and that number now.  Calls of quote are left out:    *)
(* no input has one.                                                       *)
(***************************************************************************)
Evaluator ==
    [envs |-> <<Environment(0)>>, result |-> PyNone, exc |-> NoErr,
     errors |-> <<>>, started |-> 0]

EBind(ev, F(_)) == IF ev.exc = NoErr THEN F(ev) ELSE ev
return(ev, obj) == [ev EXCEPT !.result = obj]
raise(ev, kind, where) == [ev EXCEPT !.exc = Raised(kind, where)]

\* return new_error(message)
return_new_error(ev, message) ==
    [ev EXCEPT !.result = new_error(message),
               !.errors = Append(@, [error |-> new_error(message),
                                     started |-> ev.started])]

native_bool_to_object(value) == BooleanObject(value)

\* Evaluator.is_truthy: obj == NULL or obj == FALSE is all that is not
\* truthy; None and an ErrorObject are
Evaluator_is_truthy(obj) == ~(obj = NULL \/ obj = FALSE_)

evaluate_bang_operator_expression(ev, right) ==
    IF right = TRUE_ THEN return(ev, FALSE_)
    ELSE IF right = FALSE_ THEN return(ev, TRUE_)
    ELSE IF right = NULL THEN return(ev, TRUE_)
    ELSE return(ev, FALSE_)

\* right.objtype() of None raises
evaluate_minus_prefix_operator_expression(ev, right) ==
    IF right.t = "INTEGER" THEN return(ev, IntegerObject(-1 * right.iv))
    ELSE IF right = PyNone THEN raise(ev, "AttributeError", "objtype")
    ELSE return_new_error(ev, "unknown operator")

evaluate_prefix_expression(ev, operator, right) ==
    IF operator = "!" THEN evaluate_bang_operator_expression(ev, right)
    ELSE IF operator = "-" THEN evaluate_minus_prefix_operator_expression(ev, right)
    ELSE IF right = PyNone THEN raise(ev, "AttributeError", "objtype")
    ELSE return_new_error(ev, "unknown operator")

\* int(a / b) for b # 0: the quotient rounded toward zero (the float a / b
\* is exact for the integers of the inputs)
Abs(n) == IF n < 0 THEN -n ELSE n
TruncDiv(a, b) ==
    IF (a < 0) = (b < 0) THEN Abs(a) \div Abs(b) ELSE -(Abs(a) \div Abs(b))

evaluate_integer_infix_expression(ev, left, operator, right) ==
    CASE operator = "+" -> return(ev, IntegerObject(left.iv + right.iv))
      [] operator = "-" -> return(ev, IntegerObject(left.iv - right.iv))
      [] operator = "*" -> return(ev, IntegerObject(left.iv * right.iv))
      [] operator = "/" ->
            IF right.iv = 0 THEN raise(ev, "ZeroDivisionError", "/")
            ELSE return(ev, IntegerObject(TruncDiv(left.iv, right.iv)))
      [] operator = ">" -> return(ev, native_bool_to_object(left.iv > right.iv))
      [] operator = "<" -> return(ev, native_bool_to_object(left.iv < right.iv))
      [] operator = "==" -> return(ev, native_bool_to_object(left.iv = right.iv))
      [] operator = "!=" -> return(ev, native_bool_to_object(left.iv # right.iv))
      [] OTHER -> return_new_error(ev, "unknown operator")

evaluate_string_infix_expression(ev, left, operator, right) ==
    IF operator # "+" THEN return_new_error(ev, "unknown operator")
    ELSE return(ev, StringObject(left.sv \o right.sv))

\* the conditions in the order of the code: objtype() of None raises where
\* the code reaches it
evaluate_infix_expression(ev, left, operator, right) ==
    IF left = PyNone \/ (left.t \in {"INTEGER", "STRING"} /\ right = PyNone)
    THEN raise(ev, "AttributeError", "objtype")
    ELSE IF left.t = "INTEGER" /\ right.t = "INTEGER"
    THEN evaluate_integer_infix_expression(ev, left, operator, right)
    ELSE IF left.t = "STRING" /\ right.t = "STRING"
    THEN evaluate_string_infix_expression(ev, left, operator, right)
    ELSE IF operator = "==" THEN return(ev, native_bool_to_object(left = right))
    ELSE IF operator = "!=" THEN return(ev, native_bool_to_object(left # right))
    ELSE IF right = PyNone THEN raise(ev, "AttributeError", "objtype")
    ELSE IF left.t # right.t THEN return_new_error(ev, "type mismatch")
    ELSE return_new_error(ev, "unknown operator")

\* builtins is a list of NamedBuiltin: builtins.get raises
evaluate_identifier(ev, node, env) ==
    IF env_get(ev.envs, env, node.ident) # PyNone
    THEN return(ev, env_get(ev.envs, env, node.ident))
    ELSE raise(ev, "AttributeError", "get")

evaluate_array_index_expression(ev, array, index) ==
    IF index.iv < 0 \/ index.iv > Len(array.elements) - 1 THEN return(ev, NULL)
    ELSE return(ev, array.elements[index.iv + 1])

evaluate_hash_index_expression(ev, hush, key) ==
    IF ~Hashable(key) THEN return_new_error(ev, "unusable as hash key")
    ELSE return(ev, IF HashGet(hush.pairs, key) = PyNone THEN NULL
                    ELSE HashGet(hush.pairs, key))

evaluate_index_expression(ev, left, index) ==
    IF left = PyNone \/ (left.t = "ARRAY" /\ index = PyNone)
    THEN raise(ev, "AttributeError", "objtype")
    ELSE IF left.t = "ARRAY" /\ index.t = "INTEGER"
    THEN evaluate_array_index_expression(ev, left, index)
    ELSE IF left.t = "HASH" THEN evaluate_hash_index_expression(ev, left, index)
    ELSE return_new_error(ev, "index operator not supported")

unwrap_return_value(obj) == IF obj.t = "RETURN_VALUE" THEN obj.value ELSE obj

RECURSIVE evaluate(_, _, _)
RECURSIVE evaluate_program(_, _, _, _)
RECURSIVE evaluate_block_statement(_, _, _, _)
RECURSIVE evaluate_expressions(_, _, _, _, _)
RECURSIVE evaluate_hash_literal(_, _, _, _, _)
RECURSIVE extend_function_env(_, _, _, _, _)

\* the loop of evaluate_program from statement i on; with no statement,
\* `return result` reads a name that was never bound
evaluate_program(ev, statements, env, i) ==
    IF statements = <<>> THEN raise(ev, "UnboundLocalError", "result")
    ELSE IF i > Len(statements) THEN ev
    ELSE EBind(evaluate([ev EXCEPT !.started = @ + 1], statements[i], env),
               LAMBDA e1:
                   IF e1.result.t = "RETURN_VALUE" THEN return(e1, e1.result.value)
                   ELSE IF e1.result.t = "ERROR" THEN e1
                   ELSE evaluate_program(e1, statements, env, i + 1))

\* the loop of evaluate_block_statement from statement i on
evaluate_block_statement(ev, statements, env, i) ==
    IF statements = <<>> THEN raise(ev, "UnboundLocalError", "result")
    ELSE IF i > Len(statements) THEN ev
    ELSE EBind(evaluate(ev, statements[i], env), LAMBDA e1:
             IF e1.result.t \in {"RETURN_VALUE", "ERROR"} THEN e1
             ELSE evaluate_block_statement(e1, statements, env, i + 1))

\* the loop of evaluate_expressions from expression i on; the list it
\* returns is the result
evaluate_expressions(ev, expressions, env, i, results) ==
    IF i > Len(expressions) THEN return(ev, results)
    ELSE EBind(evaluate(ev, expressions[i], env), LAMBDA e1:
             IF is_error(e1.result) THEN return(e1, <<e1.result>>)
             ELSE evaluate_expressions(e1, expressions, env, i + 1,
                                       Append(results, e1.result)))

\* the loop of evaluate_hash_literal from pair i on (node.pairs.items() is in
\* the order of the source); pairs[key] = value raises for a key that cannot
\* be hashed
evaluate_hash_literal(ev, node_pairs, env, i, pairs) ==
    IF i > Len(node_pairs) THEN return(ev, HashObject(pairs))
    ELSE EBind(evaluate(ev, node_pairs[i][1], env), LAMBDA e1:
             IF is_error(e1.result) THEN e1
             ELSE EBind(evaluate(e1, node_pairs[i][2], env), LAMBDA e2:
                 IF is_error(e2.result) THEN e2
                 ELSE IF ~Hashable(e1.result)
                 THEN raise(e2, "TypeError", "unhashable")
                 ELSE evaluate_hash_literal(e2, node_pairs, env, i + 1,
                          HashSet(pairs, e1.result, e2.result))))

\* the loop of extend_function_env from parameter i on, env being the new
\* Environment(outer=fn.env); args[i] raises when the arguments are too few
extend_function_env(ev, fn, args, env, i) ==
    IF i > Len(fn.parameters) THEN ev
    ELSE IF i > Len(args) THEN raise(ev, "IndexError", "args")
    ELSE extend_function_env(
             [ev EXCEPT !.envs = env_set(@, env, fn.parameters[i], args[i])],
             fn, args, env, i + 1)

apply_function(ev, function, args) ==
    IF function.t = "FUNCTION"
    THEN LET extended_env == Len(ev.envs) + 1
             e0 == [ev EXCEPT !.envs = Append(@, Environment(function.env))]
         IN EBind(extend_function_env(e0, function, args, extended_env, 1),
                  LAMBDA e1:
            EBind(evaluate(e1, function.body, extended_env), LAMBDA e2:
                return(e2, unwrap_return_value(e2.result))))
    ELSE IF function.t = "BUILTIN" THEN return(ev, builtin_fn(function.builtin, args))
    ELSE IF function = PyNone THEN raise(ev, "AttributeError", "objtype")
    ELSE return_new_error(ev, "not a function")

evaluate_if_expression(ev, expression, env) ==
    EBind(evaluate(ev, expression.condition, env), LAMBDA e1:
        IF Evaluator_is_truthy(e1.result)
        THEN evaluate(e1, expression.consequence, env)
        ELSE IF expression.alternative # NoNode
        THEN evaluate(e1, expression.alternative, env)
        ELSE return(e1, NULL))

evaluate(ev, node, env) ==
    CASE node.type = "Program" -> evaluate_program(ev, node.statements, env, 1)
      [] node.type = "BlockStatement" ->
            evaluate_block_statement(ev, node.statements, env, 1)
      [] node.type = "LetStatement" ->
            EBind(evaluate(ev, node.value, env), LAMBDA e1:
                IF is_error(e1.result) THEN e1
                ELSE [e1 EXCEPT !.envs = env_set(@, env, node.name, e1.result),
                                !.result = PyNone])
      [] node.type = "ReturnStatement" ->
            EBind(evaluate(ev, node.return_value, env), LAMBDA e1:
                IF is_error(e1.result) THEN e1
                ELSE return(e1, ReturnValue(e1.result)))
      [] node.type = "ExpressionStatement" -> evaluate(ev, node.expression, env)
      [] node.type = "IntegerLiteral" -> return(ev, IntegerObject(node.int_value))
      [] node.type = "StringLiteral" -> return(ev, StringObject(node.str_value))
      [] node.type = "Boolean" -> return(ev, native_bool_to_object(node.bool_value))
      [] node.type = "PrefixExpression" ->
            EBind(evaluate(ev, node.right, env), LAMBDA e1:
                IF is_error(e1.result) THEN e1
                ELSE evaluate_prefix_expression(e1, node.operator, e1.result))
      [] node.type = "InfixExpression" ->
            EBind(evaluate(ev, node.left, env), LAMBDA e1:
                IF is_error(e1.result) THEN e1
                ELSE EBind(evaluate(e1, node.right, env), LAMBDA e2:
                    IF is_error(e2.result) THEN e2
                    ELSE evaluate_infix_expression(e2, e1.result, node.operator,
                                                   e2.result)))
      [] node.type = "IfExpression" -> evaluate_if_expression(ev, node, env)
      [] node.type = "Identifier" -> evaluate_identifier(ev, node, env)
      [] node.type = "FunctionLiteral" ->
            return(ev, FunctionObject(node.parameters, node.body, env))
      [] node.type = "CallExpression" ->
            EBind(evaluate(ev, node.function, env), LAMBDA e1:
                IF is_error(e1.result) THEN e1
                ELSE EBind(evaluate_expressions(e1, node.arguments, env, 1, <<>>),
                           LAMBDA e2:
                    IF Len(e2.result) = 1 /\ is_error(e2.result[1])
                    THEN return(e2, e2.result[1])
                    ELSE apply_function(e2, e1.result, e2.result)))
      [] node.type = "ArrayLiteral" ->
            EBind(evaluate_expressions(ev, node.elements, env, 1, <<>>), LAMBDA e1:
                IF Len(e1.result) = 1 /\ is_error(e1.result[1])
                THEN return(e1, e1.result[1])
                ELSE return(e1, ArrayObject(e1.result)))
      [] node.type = "IndexExpression" ->
            EBind(evaluate(ev, node.left, env), LAMBDA e1:
                IF is_error(e1.result) THEN e1
                ELSE EBind(evaluate(e1, node.index, env), LAMBDA e2:
                    IF is_error(e2.result) THEN e2
                    ELSE evaluate_index_expression(e2, e1.result, e2.result)))
      [] node.type = "HashLiteral" ->
            evaluate_hash_literal(ev, node.pairs, env, 1, <<>>)
      [] OTHER -> return(ev, PyNone)

(***************************************************************************)
(* The tree-walking evaluator on its own, as test/test_evaluator.py uses   *)
(* it: Evaluator().evaluate(program, Environment()).                       *)
(***************************************************************************)
\* The inputs of test_error_handling, and further inputs with an error in
\* each place an expression can stand, most followed by a statement
EvalTests ==
  <<
    \* 5 + true;
    Program(<<ExpressionStatement(InfixExpression(IntegerLiteral(5), "+", Boolean(TRUE)))>>),
    \* 5 + true; 5;
    Program(<<ExpressionStatement(InfixExpression(IntegerLiteral(5), "+", Boolean(TRUE))),
        ExpressionStatement(IntegerLiteral(5))>>),
    \* -true
    Program(<<ExpressionStatement(PrefixExpression("-", Boolean(TRUE)))>>),
    \* true + false;
    Program(<<ExpressionStatement(InfixExpression(Boolean(TRUE), "+", Boolean(FALSE)))>>),
    \* true + false + true + false;
    Program(<<ExpressionStatement(InfixExpression(InfixExpression(InfixExpression(Boolean(TRUE), "+", Boolean(FALSE)), "+", Boolean(TRUE)), "+", Boolean(FALSE)))>>),
    \* 5; true + false; 5
    Program(<<ExpressionStatement(IntegerLiteral(5)),
        ExpressionStatement(InfixExpression(Boolean(TRUE), "+", Boolean(FALSE))),
        ExpressionStatement(IntegerLiteral(5))>>),
    \* if (10 > 1) { true + false; }
    Program(<<ExpressionStatement(IfExpression(InfixExpression(IntegerLiteral(10), ">", IntegerLiteral(1)), BlockStatement(<<ExpressionStatement(InfixExpression(Boolean(TRUE), "+", Boolean(FALSE)))>>), NoNode))>>),
    \* if (10 > 1) { if (10 > 1) { return true + false; } return 1; }
    Program(<<ExpressionStatement(IfExpression(InfixExpression(IntegerLiteral(10), ">", IntegerLiteral(1)), BlockStatement(<<ExpressionStatement(IfExpression(InfixExpression(IntegerLiteral(10), ">", IntegerLiteral(1)), BlockStatement(<<ReturnStatement(InfixExpression(Boolean(TRUE), "+", Boolean(FALSE)))>>), NoNode)), ReturnStatement(IntegerLiteral(1))>>), NoNode))>>),
    \* foobar
    Program(<<ExpressionStatement(Identifier("foobar"))>>),
    \* if (1 + true) { 5 }; 7
    Program(<<ExpressionStatement(IfExpression(InfixExpression(IntegerLiteral(1), "+", Boolean(TRUE)), BlockStatement(<<ExpressionStatement(IntegerLiteral(5))>>), NoNode)),
        ExpressionStatement(IntegerLiteral(7))>>),
    \* if (1 + true) { 5 } else { 6 }
    Program(<<ExpressionStatement(IfExpression(InfixExpression(IntegerLiteral(1), "+", Boolean(TRUE)), BlockStatement(<<ExpressionStatement(IntegerLiteral(5))>>), BlockStatement(<<ExpressionStatement(IntegerLiteral(6))>>)))>>),
    \* !(1 + true); 7
    Program(<<ExpressionStatement(PrefixExpression("!", InfixExpression(IntegerLiteral(1), "+", Boolean(TRUE)))),
        ExpressionStatement(IntegerLiteral(7))>>),
    \* 2 * (1 + true); 7
    Program(<<ExpressionStatement(InfixExpression(IntegerLiteral(2), "*", InfixExpression(IntegerLiteral(1), "+", Boolean(TRUE)))),
        ExpressionStatement(IntegerLiteral(7))>>),
    \* return 1 + true; 7
    Program(<<ReturnStatement(InfixExpression(IntegerLiteral(1), "+", Boolean(TRUE))),
        ExpressionStatement(IntegerLiteral(7))>>),
    \* fn(x) { x }(1 + true); 7
    Program(<<ExpressionStatement(CallExpression(FunctionLiteral(<<"x">>, BlockStatement(<<ExpressionStatement(Identifier("x"))>>)), <<InfixExpression(IntegerLiteral(1), "+", Boolean(TRUE))>>)),
        ExpressionStatement(IntegerLiteral(7))>>),
    \* fn(x, y) { 3 }(2, 1 + true); 7
    Program(<<ExpressionStatement(CallExpression(FunctionLiteral(<<"x", "y">>, BlockStatement(<<ExpressionStatement(IntegerLiteral(3))>>)), <<IntegerLiteral(2), InfixExpression(IntegerLiteral(1), "+", Boolean(TRUE))>>)),
        ExpressionStatement(IntegerLiteral(7))>>),
    \* let f = fn(x) { x + true; 1 }; f(2); 7
    Program(<<LetStatement("f", FunctionLiteral(<<"x">>, BlockStatement(<<ExpressionStatement(InfixExpression(Identifier("x"), "+", Boolean(TRUE))), ExpressionStatement(IntegerLiteral(1))>>))),
        ExpressionStatement(CallExpression(Identifier("f"), <<IntegerLiteral(2)>>)),
        ExpressionStatement(IntegerLiteral(7))>>),
    \* let a = 1 + true; 7
    Program(<<LetStatement("a", InfixExpression(IntegerLiteral(1), "+", Boolean(TRUE))),
        ExpressionStatement(IntegerLiteral(7))>>),
    \* [1, 1 + true, 3]; 7
    Program(<<ExpressionStatement(ArrayLiteral(<<IntegerLiteral(1), InfixExpression(IntegerLiteral(1), "+", Boolean(TRUE)), IntegerLiteral(3)>>)),
        ExpressionStatement(IntegerLiteral(7))>>),
    \* {1: 1 + true}; 7
    Program(<<ExpressionStatement(HashLiteral(<<<<IntegerLiteral(1), InfixExpression(IntegerLiteral(1), "+", Boolean(TRUE))>>>>)),
        ExpressionStatement(IntegerLiteral(7))>>),
    \* [1][1 + true]; 7
    Program(<<ExpressionStatement(IndexExpression(ArrayLiteral(<<IntegerLiteral(1)>>), InfixExpression(IntegerLiteral(1), "+", Boolean(TRUE)))),
        ExpressionStatement(IntegerLiteral(7))>>),
    \* if (true) { if (1 + true) { 5 }; 6 }; 7
    Program(<<ExpressionStatement(IfExpression(Boolean(TRUE), BlockStatement(<<ExpressionStatement(IfExpression(InfixExpression(IntegerLiteral(1), "+", Boolean(TRUE)), BlockStatement(<<ExpressionStatement(IntegerLiteral(5))>>), NoNode)), ExpressionStatement(IntegerLiteral(6))>>), NoNode)),
        ExpressionStatement(IntegerLiteral(7))>>),
    \* let a = [1, 2, 3]; push(rest(a), 99)
    Program(<<LetStatement("a", ArrayLiteral(<<IntegerLiteral(1), IntegerLiteral(2), IntegerLiteral(3)>>)),
        ExpressionStatement(CallExpression(Identifier("push"), <<CallExpression(Identifier("rest"), <<Identifier("a")>>), IntegerLiteral(99)>>))>>),
    \* let a = [1, 2, 3]; a[1]
    Program(<<LetStatement("a", ArrayLiteral(<<IntegerLiteral(1), IntegerLiteral(2), IntegerLiteral(3)>>)),
        ExpressionStatement(IndexExpression(Identifier("a"), IntegerLiteral(1)))>>),
    \* {1: 2}[1]
    Program(<<ExpressionStatement(IndexExpression(HashLiteral(<<<<IntegerLiteral(1), IntegerLiteral(2)>>>>), IntegerLiteral(1)))>>),
    \* 1[0]; 7
    Program(<<ExpressionStatement(IndexExpression(IntegerLiteral(1), IntegerLiteral(0))),
        ExpressionStatement(IntegerLiteral(7))>>),
    \* 5(1); 7
    Program(<<ExpressionStatement(CallExpression(IntegerLiteral(5), <<IntegerLiteral(1)>>)),
        ExpressionStatement(IntegerLiteral(7))>>),
    \* "a" - "b"; 7
    Program(<<ExpressionStatement(InfixExpression(StringLiteral("a"), "-", StringLiteral("b"))),
        ExpressionStatement(IntegerLiteral(7))>>)
  >>

\* the programs given to the compiler and EvalTests, but for the recursive
\* ones (those whose calls never end, and fibonacci(15))
EvalInputs ==
    LET parsed == SelectSeq(Programs, LAMBDA p : p.input.type = "Program"
                                                 /\ p.kind \notin {"deep", "recursion"})
    IN [i \in 1..Len(parsed) |-> parsed[i].input] \o CompilerTests
           \o ErrorTests \o EvalTests

\* evaluator = Evaluator() and env = Environment(), before evaluate is called
\* on one of EvalInputs (prog is its index)
EvalInit ==
    /\ prog \in 1..Len(EvalInputs)
    /\ program = EvalInputs[prog]
    /\ evaluator = Evaluator
    /\ encoding = NoEncoding
    /\ compiler = Compiler
    /\ compile_err = NoErr
    /\ status = "parsed"
    /\ constants = <<>>
    /\ stack = <<>>
    /\ sp = 0
    /\ globals = <<>>
    /\ frames = <<>>
    /\ frames_index = 0
    /\ err = NoErr
    /\ calls = <<>>
    /\ last = NoStep
    /\ symtabs = <<>>

\* evaluated = evaluator.evaluate(program, env)
Evaluate ==
    /\ status = "parsed"
    /\ evaluator' = evaluate(evaluator, program, 1)
    /\ status' = IF evaluator'.exc = NoErr THEN "evaluated" ELSE "raised"
    /\ UNCHANGED <<prog, compile_err, compiler, symtabs, vm_vars, program, encoding>>

EvalNext == Evaluate

EvalSpec == EvalInit /\ [][EvalNext]_vars

(***************************************************************************)
(* code.py: decoding instructions                                          *)
(***************************************************************************)
\* read_operands: the offset after the operands of op, the sum of the widths
operands_offset(op) ==
    LET sum[i \in 0..Len(operand_widths[op])] ==
            IF i = 0 THEN 0 ELSE sum[i - 1] + operand_widths[op][i]
    IN sum[Len(operand_widths[op])]

\* read_uint16(ins[pos+1:]), the operand of the instruction at pos
read_uint16(ins, pos) == from_bytes(Slice(ins, pos + 1, pos + 3))

RECURSIVE instruction_positions(_, _)
\* the offsets, from pos on, at which an instruction of ins starts (decoded
\* one after the other, as Instructions.__str__ does)
instruction_positions(ins, pos) ==
    IF pos >= Len(ins) \/ ~ValidOpcode(ins[pos + 1]) THEN {}
    ELSE {pos} \cup instruction_positions(ins, pos + 1 + operands_offset(OpName(ins[pos + 1])))

(***************************************************************************)
(* Conditionals in the compiler (properties of CompileSpec)                *)
(***************************************************************************)
\* the offsets a jump of ins may name: where an instruction starts, or the end
JumpTargets(ins) == instruction_positions(ins, 0) \cup {Len(ins)}

\* e records one compiled IfExpression: the instructions of its scope when
\* its compilation ended, and where its two jumps were emitted
IfPatched(e) ==
    LET ins == e.instructions
        after_jump == e.jump_pos + 3
    IN /\ {e.jump_not_truthy_pos, e.jump_pos} \subseteq instruction_positions(ins, 0)
       /\ ins[e.jump_not_truthy_pos + 1] = Opcode.OpJumpNotTruthy
       /\ ins[e.jump_pos + 1] = Opcode.OpJump
       /\ read_uint16(ins, e.jump_not_truthy_pos) = after_jump
       /\ read_uint16(ins, e.jump_pos) = Len(ins)
       /\ ~e.has_alternative =>
              /\ Len(ins) = after_jump + 1
              /\ ins[after_jump + 1] = Opcode.OpNull
       /\ read_uint16(ins, e.jump_not_truthy_pos) # 9999
       /\ read_uint16(ins, e.jump_pos) # 9999
       /\ {after_jump, Len(ins)} \subseteq JumpTargets(ins)

\* the instructions of the program and of every function it compiled
CompiledInstructions ==
    {current_instructions(compiler)}
    \cup {compiler.constants[i].instructions :
             i \in {j \in 1..Len(compiler.constants) :
                       compiler.constants[j].t = "COMPILED_FUNCTION"}}

\* every jump of ins names the start of an instruction of ins, or its end
JumpsLand(ins) ==
    \A p \in instruction_positions(ins, 0) :
        ins[p + 1] \in {Opcode.OpJumpNotTruthy, Opcode.OpJump}
        => /\ read_uint16(ins, p) # 9999
           /\ read_uint16(ins, p) \in JumpTargets(ins)

\* C11: when the compilation of an IfExpression ends, nested or not, the
\* operand of its OpJumpNotTruthy is the offset just after its OpJump and the
\* operand of its OpJump is the offset just after the alternative (after the
\* OpNull when there is none); neither is the placeholder 9999, and in the
\* finished program every jump names an instruction boundary of its own
\* scope, between 0 and the length of the instructions.
C11_JumpBackPatching ==
    status = "compiled"
    => /\ \A i \in 1..Len(compiler.ifs) : IfPatched(compiler.ifs[i])
       /\ \A ins \in CompiledInstructions : JumpsLand(ins)

\* a conditional with an alternative whose consequence holds a conditional
C11_Witness ==
    /\ status = "compiled"
    /\ \E i, j \in 1..Len(compiler.ifs) :
          /\ compiler.ifs[j].has_alternative
          /\ compiler.ifs[i].scope_index = compiler.ifs[j].scope_index
          /\ compiler.ifs[j].jump_not_truthy_pos < compiler.ifs[i].jump_not_truthy_pos
          /\ compiler.ifs[i].jump_pos < compiler.ifs[j].jump_pos

(***************************************************************************)
(* Functions and identifiers in the compiler (properties of CompileSpec)   *)
(***************************************************************************)
\* the one instruction that loads a symbol of each scope
ExpectedLoad(symbol) ==
    CASE symbol.scope = "GLOBAL" -> make("OpGetGlobal", <<symbol.index>>)
      [] symbol.scope = "LOCAL" -> make("OpGetLocal", <<symbol.index>>)
      [] symbol.scope = "BUILTIN" -> make("OpGetBuiltin", <<symbol.index>>)
      [] symbol.scope = "FREE" -> make("OpGetFree", <<symbol.index>>)
      [] symbol.scope = "FUNCTION" -> make("OpCurrentClosure", <<>>)

\* the loads of the symbols of a list, one after the other
ExpectedLoads(symbols) ==
    LET loads[i \in 0..Len(symbols)] ==
            IF i = 0 THEN <<>> ELSE loads[i - 1] \o ExpectedLoad(symbols[i])
    IN loads[Len(symbols)]

\* C19: compiling a FunctionLiteral appends the CompiledFunction to the
\* constants and emits, in the enclosing scope, one load per free symbol of
\* the function (of the original outer symbol, in free-index order) and then
\* OpClosure with the function's constant index and the number of its free
\* symbols.
C19_FunctionLiteralEmitsClosure ==
    \A i \in 1..Len(compiler.functions) :
        LET f == compiler.functions[i]
        IN /\ f.constants[Len(f.constants)] = f.compiled_fn
           /\ f.emitted = ExpectedLoads(f.free_symbols)
                              \o make("OpClosure", <<Len(f.constants) - 1,
                                                     Len(f.free_symbols)>>)

\* C20: every Identifier that resolves to a symbol compiles to exactly the
\* one load instruction of the symbol's scope: OpGetGlobal, OpGetLocal,
\* OpGetBuiltin or OpGetFree with the symbol's index, or OpCurrentClosure.
C20_IdentifierLoads ==
    \A i \in 1..Len(compiler.loads) :
        compiler.loads[i].emitted = ExpectedLoad(compiler.loads[i].symbol)

\* the opcode byte of the last instruction of ins (ins is not empty)
LastOpcode(ins) ==
    LET starts == instruction_positions(ins, 0)
    IN ins[(CHOOSE p \in starts : \A q \in starts : q <= p) + 1]

RECURSIVE LetCount(_)
\* the LetStatements of a node that belong to the function the node is in
\* (those of a FunctionLiteral inside it belong to that function)
LetCount(node) ==
    LET Sum(nodes) ==
            LET s[i \in 0..Len(nodes)] ==
                    IF i = 0 THEN 0 ELSE s[i - 1] + LetCount(nodes[i])
            IN s[Len(nodes)]
    IN CASE node.type \in {"Program", "BlockStatement"} -> Sum(node.statements)
         [] node.type = "ExpressionStatement" -> LetCount(node.expression)
         [] node.type = "LetStatement" -> 1 + LetCount(node.value)
         [] node.type = "ReturnStatement" -> LetCount(node.return_value)
         [] node.type = "PrefixExpression" -> LetCount(node.right)
         [] node.type = "InfixExpression" ->
                LetCount(node.left) + LetCount(node.right)
         [] node.type = "IfExpression" ->
                LetCount(node.condition) + LetCount(node.consequence)
                + LetCount(node.alternative)
         [] node.type = "CallExpression" ->
                LetCount(node.function) + Sum(node.arguments)
         [] node.type = "ArrayLiteral" -> Sum(node.elements)
         [] node.type = "HashLiteral" ->
                Sum([i \in 1..Len(node.pairs) |-> node.pairs[i][1]])
                + Sum([i \in 1..Len(node.pairs) |-> node.pairs[i][2]])
         [] node.type = "IndexExpression" ->
                LetCount(node.left) + LetCount(node.index)
         [] OTHER -> 0

\* the type of the last statement of the body of a function literal ("None"
\* for an empty body)
LastStatement(node) ==
    IF Len(node.body.statements) = 0 THEN "None"
    ELSE node.body.statements[Len(node.body.statements)].type

\* what holds of every compiled function f, whatever its body ends in: the
\* last instruction returns, a trailing OpPop was rewritten in place, and the
\* counts are those of the literal
FunctionReturns(f) ==
    LET ins == f.compiled_fn.instructions
    IN /\ Len(ins) > 0
       /\ LastOpcode(ins) \in {Opcode.OpReturnValue, Opcode.OpReturn}
       /\ LastStatement(f.node) = "ExpressionStatement" =>
              /\ Len(f.body) > 0
              /\ f.body[Len(f.body)] = Opcode.OpPop
              /\ ins = [f.body EXCEPT ![Len(f.body)] = Opcode.OpReturnValue]
       /\ f.compiled_fn.num_parameters = Len(f.node.parameters)
       /\ f.compiled_fn.num_locals =
              Len(f.node.parameters) + LetCount(f.node.body)

\* C21 (as the code has it): every CompiledFunction ends in OpReturnValue or
\* OpReturn; a body ending in an expression statement has its trailing OpPop
\* rewritten in place to OpReturnValue; a body ending in a return statement
\* is left as it is, ending in the OpReturnValue of that statement; an empty
\* body or one ending in a let statement gets OpReturn appended;
\* num_parameters is the number of parameters and num_locals the parameters
\* plus the let statements of the body.
C21_FunctionsEndInReturn ==
    \A i \in 1..Len(compiler.functions) :
        LET f == compiler.functions[i]
        IN /\ FunctionReturns(f)
           /\ LastStatement(f.node) = "ReturnStatement" =>
                  f.compiled_fn.instructions = f.body
           /\ LastStatement(f.node) \in {"None", "LetStatement"} =>
                  f.compiled_fn.instructions = f.body \o <<Opcode.OpReturn>>

\* C21 (as stated): the same, but every body that is empty or ends in a
\* statement other than an expression statement gets OpReturn appended.
C21_AsStated ==
    \A i \in 1..Len(compiler.functions) :
        LET f == compiler.functions[i]
        IN /\ FunctionReturns(f)
           /\ LastStatement(f.node) # "ExpressionStatement" =>
                  f.compiled_fn.instructions = f.body \o <<Opcode.OpReturn>>

\* a function with a parameter and a let statement, whose body ends in an
\* expression statement, has been compiled
C21_Witness ==
    \E i \in 1..Len(compiler.functions) :
        LET f == compiler.functions[i]
        IN /\ LastStatement(f.node) = "ExpressionStatement"
           /\ Len(f.node.parameters) > 0
           /\ LetCount(f.node.body) > 0
           /\ f.compiled_fn.num_locals > f.compiled_fn.num_parameters
           /\ LastOpcode(f.compiled_fn.instructions) = Opcode.OpReturnValue

\* C22: side effects occur in source order: for every infix expression
\* L op R, `<` included, the instructions that evaluate L (and so every call
\* of puts in L) come before those that evaluate R in the instructions of
\* the scope, which the machine executes from the lowest offset on.
C22_OperandsInSourceOrder ==
    \A i \in 1..Len(compiler.infixes) :
        compiler.infixes[i].left_pos <= compiler.infixes[i].right_pos

(***************************************************************************)
(* Hash literals in the compiler (properties of CompileSpec)               *)
(***************************************************************************)
\* the pairs of the hash literal that was compiled
CompiledPairs == program.statements[1].expression.pairs

\* the same pairs in every order
Reordered(pairs) ==
    {[i \in 1..Len(pairs) |-> pairs[f[i]]] :
        f \in {g \in [1..Len(pairs) -> 1..Len(pairs)] :
                  \A i, j \in 1..Len(pairs) : i # j => g[i] # g[j]}}

\* no two keys of the pairs have the same text
DistinctKeyTexts(pairs) ==
    \A i, j \in 1..Len(pairs) :
        i # j => NodeStr(pairs[i][1]) # NodeStr(pairs[j][1])

\* every reordering of the compiled literal compiles to the bytecode the
\* compiler holds, which ends in OpHash 2n and the OpPop of the statement
SameBytecodeInAnyOrder ==
    /\ \A pairs \in Reordered(CompiledPairs) :
           bytecode(compile(Compiler, HashProgram(pairs))) = bytecode(compiler)
    /\ LET ins == current_instructions(compiler)
       IN Slice(ins, Len(ins) - 4, Len(ins)) =
              make("OpHash", <<2 * Len(CompiledPairs)>>) \o make("OpPop", <<>>)

\* C23 (as the code has it): the pairs of a HashLiteral whose keys have
\* pairwise different texts are emitted in the order of those texts, so the
\* same pairs written in any order compile to the same instructions and
\* constants, ending in OpHash 2n.
C23_HashLiteralOrder ==
    (prog = 0 /\ status = "compiled" /\ DistinctKeyTexts(CompiledPairs))
    => SameBytecodeInAnyOrder

\* C23 (as stated): the same for every HashLiteral, keys of equal text
\* included.
C23_AsStated ==
    (prog = 0 /\ status = "compiled") => SameBytecodeInAnyOrder

\* {2: 7, 10: 8} has been compiled: the key 10 comes first
C23_Witness ==
    /\ prog = 0
    /\ status = "compiled"
    /\ CompiledPairs = <<<<IntegerLiteral(2), IntegerLiteral(7)>>,
                          <<IntegerLiteral(10), IntegerLiteral(8)>>>>
    /\ compiler.constants = <<IntegerObject(10), IntegerObject(8),
                               IntegerObject(2), IntegerObject(7)>>

OtherTablesKept(k) ==
    /\ Len(symtabs') = Len(symtabs)
    /\ \A j \in 1..Len(symtabs) : j # k => symtabs'[j] = symtabs[j]

\* in table k, the names other than name are bound after the step as before
OtherNamesKept(k, name) ==
    /\ DOMAIN symtabs'[k].store = DOMAIN symtabs[k].store \cup {name}
    /\ \A n \in DOMAIN symtabs[k].store :
           n # name => symtabs'[k].store[n] = symtabs[k].store[n]

\* C12: define(name) on a table binds name, in that table only, to a symbol
\* whose scope is Global when the table has no outer table and Local
\* otherwise and whose index is the table's num_definitions before the call,
\* and adds one to num_definitions; a table starts with num_definitions 0
\* whatever its outer tables hold.
C12_Define ==
    [][/\ SymDefine =>
           \E name \in DefNames :
               LET k == Len(symtabs)
               IN /\ name \in DOMAIN symtabs'[k].store
                  /\ symtabs'[k].store[name] =
                         [name |-> name,
                          scope |-> IF k = 1 THEN "GLOBAL" ELSE "LOCAL",
                          index |-> symtabs[k].num_definitions]
                  /\ symtabs'[k].num_definitions = symtabs[k].num_definitions + 1
                  /\ symtabs'[k].free_symbols = symtabs[k].free_symbols
                  /\ OtherNamesKept(k, name)
                  /\ OtherTablesKept(k)
       /\ SymEnclose => symtabs'[Len(symtabs')].num_definitions = 0]_vars

\* a first definition in an enclosed table whose outer table holds two
C12_Witness ==
    /\ Len(symtabs) >= 2
    /\ symtabs[1].num_definitions = 2
    /\ "a" \in DOMAIN symtabs[2].store
    /\ symtabs[2].store["a"] = Symbol("a", LocalScope, 0)

\* the step is the call symtabs[k].resolve(name)
ResolveStep(k, name) == symtabs' = resolve(symtabs, k, name).tables

\* name is bound in some table outside table k
BoundOutside(k, name) == \E j \in 1..(k - 1) : name \in DOMAIN symtabs[j].store

\* the symbol of the nearest table outside table k that binds name
NearestOutside(k, name) ==
    LET j == CHOOSE i \in 1..(k - 1) :
                 /\ name \in DOMAIN symtabs[i].store
                 /\ \A h \in (i + 1)..(k - 1) : name \notin DOMAIN symtabs[h].store
    IN symtabs[j].store[name]

\* C13: resolving in table T a name that T does not bind and that its outer
\* chain resolves to a Local or Free symbol appends the outer symbol, as the
\* outer table holds it, to T.free_symbols and binds the name in T to a Free
\* symbol whose index is len(T.free_symbols) - 1.
C13_FreePromotion ==
    [][\A k \in 2..Len(symtabs), name \in SymNames :
          (/\ ResolveStep(k, name)
           /\ name \notin DOMAIN symtabs[k].store
           /\ BoundOutside(k, name)
           /\ NearestOutside(k, name).scope \in {"LOCAL", "FREE"})
          => /\ name \in DOMAIN symtabs'[k - 1].store
             /\ symtabs'[k - 1].store[name].scope \in {"LOCAL", "FREE"}
             /\ symtabs'[k].free_symbols =
                    Append(symtabs[k].free_symbols, symtabs'[k - 1].store[name])
             /\ name \in DOMAIN symtabs'[k].store
             /\ symtabs'[k].store[name] =
                    [name |-> name, scope |-> "FREE",
                     index |-> Len(symtabs'[k].free_symbols) - 1]
             /\ symtabs'[k].num_definitions = symtabs[k].num_definitions
             /\ OtherNamesKept(k, name)]_vars

\* the third table has resolved b and then a, both locals of the second
C13_Witness ==
    /\ Len(symtabs) = 3
    /\ symtabs[3].free_symbols =
           <<Symbol("b", LocalScope, 1), Symbol("a", LocalScope, 0)>>
    /\ symtabs[3].store["b"] = Symbol("b", FreeScope, 0)
    /\ symtabs[3].store["a"] = Symbol("a", FreeScope, 1)

\* C14: resolving, from a table at any depth, a name whose nearest binding
\* is a Global or Builtin symbol returns that symbol and leaves every table
\* as it was; define_builtin leaves num_definitions of every table as it was.
C14_GlobalAndBuiltinUnchanged ==
    /\ [](\A k \in 1..Len(symtabs), name \in SymNames :
             (/\ BoundOutside(k + 1, name)
              /\ NearestOutside(k + 1, name).scope \in {"GLOBAL", "BUILTIN"})
             => /\ resolve(symtabs, k, name).symbol = NearestOutside(k + 1, name)
                /\ resolve(symtabs, k, name).tables = symtabs)
    /\ [][SymDefineBuiltin =>
             /\ Len(symtabs') = Len(symtabs)
             /\ \A k \in 1..Len(symtabs) :
                    symtabs'[k].num_definitions = symtabs[k].num_definitions]_vars

\* a builtin and a global of the root table, resolved from the third table
C14_Witness ==
    /\ Len(symtabs) = 3
    /\ DOMAIN symtabs[1].store = {"a", builtins[1]}
    /\ symtabs[1].num_definitions = 1
    /\ DOMAIN symtabs[2].store = {}
    /\ DOMAIN symtabs[3].store = {}
    /\ resolve(symtabs, 3, builtins[1]).symbol = Symbol(builtins[1], BuiltinScope, 0)
    /\ resolve(symtabs, 3, "a").symbol = Symbol("a", GlobalScope, 0)

\* C15: once resolve has promoted a name to a Free symbol of table T, and
\* while T binds the name to that symbol, resolve of the name in T returns
\* the same Free symbol and leaves the free_symbols of T and of every outer
\* table (and the rest of the tables) as they are.
C15_PromotionCached ==
    \A k \in 1..Len(symtabs), name \in SymNames :
        (/\ name \in DOMAIN symtabs[k].store
         /\ symtabs[k].store[name].scope = "FREE")
        => /\ resolve(symtabs, k, name).symbol = symtabs[k].store[name]
           /\ resolve(symtabs, k, name).tables = symtabs

\* a function name of the root table, promoted in the second table and in
\* the third
C15_Witness ==
    /\ Len(symtabs) = 3
    /\ symtabs[2].free_symbols = <<Symbol("a", FunctionScope, 0)>>
    /\ symtabs[3].free_symbols = <<Symbol("a", FreeScope, 0)>>
    /\ symtabs[3].store["a"] = Symbol("a", FreeScope, 0)
    /\ resolve(symtabs, 3, "a").tables = symtabs

\* C16: the latest define, define_function_name or define_free of a name in
\* a table is the symbol resolve returns for it there.  A store holds a
\* Function symbol for a name exactly when define_function_name was the
\* latest of them, so a define step from such a state is a define that
\* follows define_function_name: resolve then returns the symbol of define
\* (Global on a root table, index the old num_definitions), not the Function
\* symbol.
C16_Shadowing ==
    [][/\ \A name \in DefNames :
             LET k == Len(symtabs)
             IN /\ symtabs' = define(symtabs, k, name)
                      => /\ resolve(symtabs', k, name).symbol =
                                [name |-> name,
                                 scope |-> IF k = 1 THEN "GLOBAL" ELSE "LOCAL",
                                 index |-> symtabs[k].num_definitions]
                         /\ resolve(symtabs', k, name).tables = symtabs'
                /\ symtabs' = define_function_name(symtabs, k, name)
                      => resolve(symtabs', k, name).symbol =
                             [name |-> name, scope |-> "FUNCTION", index |-> 0]
       /\ \A k \in 1..Len(symtabs), name \in SymNames :
             (/\ ResolveStep(k, name)
              /\ symtabs'[k].free_symbols # symtabs[k].free_symbols)
             => resolve(symtabs', k, name).symbol =
                    [name |-> name, scope |-> "FREE",
                     index |-> Len(symtabs[k].free_symbols)]]_vars

\* the root table has defined a after binding it as a function name, and the
\* second table has defined b after promoting the function name b of the root
C16_Witness ==
    /\ Len(symtabs) = 2
    /\ DOMAIN symtabs[1].store = {"a", "b"}
    /\ symtabs[1].store["a"] = Symbol("a", GlobalScope, 0)
    /\ symtabs[1].store["b"] = Symbol("b", FunctionScope, 0)
    /\ symtabs[2].free_symbols = <<Symbol("b", FunctionScope, 0)>>
    /\ symtabs[2].store["b"] = Symbol("b", LocalScope, 0)
    /\ resolve(symtabs, 1, "a").symbol = Symbol("a", GlobalScope, 0)
    /\ resolve(symtabs, 2, "b").symbol = Symbol("b", LocalScope, 0)

\* C17: resolving a name that no table from T out to the root binds returns
\* None and leaves every table as it was, whatever else has been promoted.
C17_Unresolvable ==
    \A k \in 1..Len(symtabs), name \in SymNames :
        ~BoundOutside(k + 1, name)
        => /\ resolve(symtabs, k, name).symbol = NoSymbol
           /\ resolve(symtabs, k, name).tables = symtabs

\* the third table has promoted a, a local of the second, and b is bound
\* nowhere
C17_Witness ==
    /\ Len(symtabs) = 3
    /\ symtabs[3].free_symbols = <<Symbol("a", LocalScope, 0)>>
    /\ ~BoundOutside(4, "b")
    /\ resolve(symtabs, 3, "b").symbol = NoSymbol

(***************************************************************************)
(* Builtins in the virtual machine (a property of Spec)                    *)
(***************************************************************************)
\* the operand of the instruction the latest step fetched, read from the
\* instructions of the frame it ran in (one byte wide)
LastOperand8 == frames[last.frames_index].fn.instructions[last.ip + 2]

\* C18: executing OpGetBuiltin i pushes the i-th registered builtin (len
\* first, push last): the step raises nothing, the stack grows by one and its
\* top is that builtin.
C18_GetBuiltinPushes ==
    last.op = "OpGetBuiltin"
    => /\ err = NoErr
       /\ sp = last.sp + 1
       /\ Top(Self) = BuiltinObject(builtins[LastOperand8 + 1])


(***************************************************************************)
(* Index expressions in the virtual machine (a property of Spec)           *)
(***************************************************************************)
\* the machine is about to execute OpIndex with its two operands on the stack
AtOpIndex == At({"OpIndex"}) /\ sp >= 2
IndexOperand == stack[sp - 1]
LeftOperand == stack[sp - 2]

\* the step has replaced the two operands by the value v
IndexPushes(v) ==
    /\ err' = NoErr
    /\ sp' = sp - 1
    /\ stack'[sp - 2] = v
    /\ \A i \in 0..(sp - 3) : stack'[i] = stack[i]

\* the value a hash holds under the key, if it holds one
StoredUnder(pairs, key) ==
    {pairs[i][2] : i \in {j \in 1..Len(pairs) : pairs[j][1] = key}}

AtOpHash == At({"OpHash"}) /\ Ip + 2 < Len(Ins) /\ sp >= Operand16

\* the keys OpHash is about to read: every second operand
HashKeyOperands == {stack[sp - Operand16 + 2 * k] : k \in 0..((Operand16 \div 2) - 1)}

\* C25 (the virtual machine): building a hash with a key that is no Integer,
\* Boolean or String, or indexing a hash with such a key, makes run() return
\* an `unusable as hash key` error; nothing is raised.
C25_UnusableAsHashKey ==
    [][(\/ AtOpHash /\ \E key \in HashKeyOperands : ~Hashable(key)
        \/ AtOpIndex /\ LeftOperand.t = "HASH" /\ ~Hashable(IndexOperand))
       => /\ err' = VmError("unusable as hash key")
          /\ status' = "returned"]_vars

(***************************************************************************)
(* Integer division in the virtual machine (a property of Spec)            *)
(***************************************************************************)
\* C26: OpDiv on two Integers and a divisor other than zero pushes the
\* quotient rounded toward zero, for negative operands too (-7 / 2 = -3).
C26_DivTruncates ==
    [][(/\ At({"OpDiv"})
        /\ sp >= 2
        /\ stack[sp - 2].t = "INTEGER"
        /\ stack[sp - 1].t = "INTEGER"
        /\ stack[sp - 1].iv # 0)
       => /\ err' = NoErr
          /\ sp' = sp - 1
          /\ stack'[sp - 2] =
                 IntegerObject(TruncDiv(stack[sp - 2].iv, stack[sp - 1].iv))]_vars


(***************************************************************************)
(* Runtime errors in the virtual machine (a property of Spec)              *)
(***************************************************************************)
\* the machine is about to execute an arithmetic instruction on two operands
\* that are neither both integers nor both strings
AtUnsupportedBinary ==
    /\ At({"OpAdd", "OpSub", "OpMul", "OpDiv"})
    /\ sp >= 2
    /\ ~(stack[sp - 2].t = "INTEGER" /\ stack[sp - 1].t = "INTEGER")
    /\ ~(stack[sp - 2].t = "STRING" /\ stack[sp - 1].t = "STRING")

\* the machine is about to negate a value that is no integer
AtUnsupportedNegation ==
    At({"OpMinus"}) /\ sp >= 1 /\ stack[sp - 1].t # "INTEGER"

\* C28: an instruction that fails makes run() return the error, and the
\* machine executes nothing after it: every step starts without an error, and
\* an arithmetic instruction on unsupported operand types or the negation of
\* a non-integer ends the run with its error returned.
C28_RuntimeErrorsAbort ==
    [][/\ err = NoErr
       /\ AtUnsupportedBinary
          => /\ err' = VmError("unsupported types for binary operation")
             /\ status' = "returned"
       /\ AtUnsupportedNegation
          => /\ err' = VmError("unsupported type for negation")
             /\ status' = "returned"]_vars


(***************************************************************************)
(* Array builtins in the evaluator (a property of EvalSpec)                *)
(***************************************************************************)
\* let a = [1, 2, 3]; push(rest(a), 99)
PushRestProgram ==
    Program(<<LetStatement("a", ArrayLiteral(<<IntegerLiteral(1),
                  IntegerLiteral(2), IntegerLiteral(3)>>)),
              ExpressionStatement(CallExpression(Identifier("push"),
                  <<CallExpression(Identifier("rest"), <<Identifier("a")>>),
                    IntegerLiteral(99)>>))>>)

\* C29: push and rest return new arrays and leave their argument as it was:
\* `let a = [1, 2, 3]; push(rest(a), 99)` evaluates to [2, 3, 99], and a is
\* still [1, 2, 3] afterwards.
C29_PushRestLeaveArgument ==
    (program = PushRestProgram /\ status # "parsed")
    => /\ status = "evaluated"
       /\ evaluator.result = ArrayObject(<<IntegerObject(2), IntegerObject(3),
                                           IntegerObject(99)>>)
       /\ env_get(evaluator.envs, 1, "a") =
              ArrayObject(<<IntegerObject(1), IntegerObject(2), IntegerObject(3)>>)

(***************************************************************************)
(* Errors in the evaluator (a property of EvalSpec)                        *)
(***************************************************************************)
\* C30: once an expression or statement has evaluated to an Error, no later
\* statement of the program is evaluated and that Error is the result of the
\* program: the first Error made is the result, and no statement of the
\* program was begun after it was made.
C30_ErrorShortCircuits ==
    (status = "evaluated" /\ evaluator.errors # <<>>)
    => /\ evaluator.result = evaluator.errors[1].error
       /\ evaluator.started = evaluator.errors[1].started


(***************************************************************************)
(* Identifiers in the evaluator (a property of EvalSpec)                   *)
(***************************************************************************)
\* the program is the one expression statement
IsStatement(expression) ==
    program = Program(<<ExpressionStatement(expression)>>)

\* C31: a name bound neither in the environment nor among the builtins
\* evaluates to the Error `identifier not found`, and the name of a builtin
\* evaluates to the builtin: foobar is such an Error, and len("four") is 4.
C31_IdentifierLookup ==
    status # "parsed"
    => /\ IsStatement(Identifier("foobar"))
          => /\ status = "evaluated"
             /\ evaluator.result = new_error("identifier not found")
       /\ IsStatement(CallExpression(Identifier("len"), <<StringLiteral("four")>>))
          => /\ status = "evaluated"
             /\ evaluator.result = IntegerObject(4)


(***************************************************************************)
(* The evaluator and the virtual machine (a property of Spec)              *)
(***************************************************************************)
RECURSIVE InFragment(_)
\* the node is built from integer and boolean literals, prefix - and !, the
\* infix operators, if/else and let bindings (with the names they bind)
InFragment(node) ==
    CASE node.type \in {"Program", "BlockStatement"} ->
            \A i \in 1..Len(node.statements) : InFragment(node.statements[i])
      [] node.type = "ExpressionStatement" -> InFragment(node.expression)
      [] node.type = "LetStatement" -> InFragment(node.value)
      [] node.type \in {"IntegerLiteral", "Boolean", "Identifier"} -> TRUE
      [] node.type = "PrefixExpression" ->
            node.operator \in {"-", "!"} /\ InFragment(node.right)
      [] node.type = "InfixExpression" ->
            /\ node.operator \in {"+", "-", "*", "/", "<", ">", "==", "!="}
            /\ InFragment(node.left)
            /\ InFragment(node.right)
      [] node.type = "IfExpression" ->
            /\ InFragment(node.condition)
            /\ InFragment(node.consequence)
            /\ node.alternative # NoNode => InFragment(node.alternative)
      [] OTHER -> FALSE

\* Evaluator().evaluate(program, Environment())
Evaluated == evaluate(Evaluator, program, 1)

\* the evaluator has a value for the program: no exception, no Error
EvaluatesToValue ==
    /\ Evaluated.exc = NoErr
    /\ Evaluated.result.t \in {"INTEGER", "BOOLEAN", "NULL"}

\* C32: for a program of the fragment that the evaluator evaluates to a
\* value, the run of the compiled program ends without an error and the
\* last element popped off the stack is that value.
C32_EvaluatorIsOracle ==
    (/\ Ended
     /\ program.type = "Program"
     /\ InFragment(program)
     /\ EvaluatesToValue)
    => /\ Completed
       /\ last_popped_stack_elem(Self) = Evaluated.result


(***************************************************************************)
(* code.py: make and read_operands on one instruction                      *)
(***************************************************************************)
\* read_uint8(ins): int.from_bytes of a one-byte slice
read_uint8(ins) == from_bytes(ins)

\* read_operands(defn, ins): the operands decoded one after the other in the
\* widths of the definition of op, and the offset after the last of them
\* (a two-byte operand is read by read_uint16, which is int.from_bytes)
read_operands(op, ins) ==
    LET widths == operand_widths[op]
        rd[i \in 0..Len(widths)] ==
            IF i = 0 THEN [operands |-> <<>>, offset |-> 0]
            ELSE LET width == widths[i]
                     offset == rd[i - 1].offset
                     bytes == Slice(ins, offset, offset + width)
                 IN [operands |->
                         IF width = 1
                         THEN Append(rd[i - 1].operands, read_uint8(bytes))
                         ELSE IF width = 2
                         THEN Append(rd[i - 1].operands, from_bytes(bytes))
                         ELSE rd[i - 1].operands,
                     offset |-> offset + width]
    IN rd[Len(widths)]

\* how far from 0 and from 255 the bytes of the operands under test lie
ByteMargin == 1

\* the bytes under test: the lowest and the highest ones
ByteSamples == (0..ByteMargin) \cup ((255 - ByteMargin)..255)

\* the operands of the given width under test
OperandSamples(width) ==
    IF width = 1 THEN ByteSamples
    ELSE {hi * 256 + lo : hi \in ByteSamples, lo \in ByteSamples}

\* the operand tuples of op under test: one operand for each declared width
OperandTuples(op) ==
    LET widths == operand_widths[op]
    IN IF Len(widths) = 0 THEN {<<>>}
       ELSE IF Len(widths) = 1 THEN {<<a>> : a \in OperandSamples(widths[1])}
       ELSE {<<a, b>> : a \in OperandSamples(widths[1]),
                        b \in OperandSamples(widths[2])}

\* an opcode of the definitions table and operands that fit its widths
CodeInit ==
    /\ \E op \in DOMAIN Opcode : \E operands \in OperandTuples(op) :
          encoding = [step |-> "drawn", op |-> op, operands |-> operands,
                      instruction |-> <<>>,
                      read |-> [operands |-> <<>>, offset |-> 0]]
    /\ program = NoNode
    /\ evaluator = NoEvaluator
    /\ prog = 1
    /\ compile_err = NoErr
    /\ compiler = Compiler
    /\ symtabs = <<>>
    /\ status = "code"
    /\ constants = <<>>
    /\ stack = <<>>
    /\ sp = 0
    /\ globals = <<>>
    /\ frames = <<>>
    /\ frames_index = 0
    /\ err = NoErr
    /\ calls = <<>>
    /\ last = NoStep

\* instruction = code.make(op, *operands)
Make ==
    /\ encoding.step = "drawn"
    /\ encoding' = [encoding EXCEPT
                        !.step = "made",
                        !.instruction = make(encoding.op, encoding.operands)]
    /\ UNCHANGED <<prog, compile_err, compiler, symtabs, vm_vars, program,
                   evaluator, status>>

\* operands_read, n = code.read_operands(defn, instruction[1:])
ReadOperands ==
    /\ encoding.step = "made"
    /\ encoding' = [encoding EXCEPT
                        !.step = "read",
                        !.read = read_operands(encoding.op,
                                     Slice(encoding.instruction, 1,
                                           Len(encoding.instruction)))]
    /\ UNCHANGED <<prog, compile_err, compiler, symtabs, vm_vars, program,
                   evaluator, status>>

CodeNext == Make \/ ReadOperands

CodeSpec == CodeInit /\ [][CodeNext]_vars

(***************************************************************************)
(* The encoding of an instruction round-trips (a property of CodeSpec)     *)
(***************************************************************************)
\* where, in the instruction, the i-th operand of op starts
OperandStart(op, i) ==
    LET start[k \in 1..i] ==
            IF k = 1 THEN 1 ELSE start[k - 1] + operand_widths[op][k - 1]
    IN start[i]

\* the bytes of the i-th operand in the instruction are its big-endian digits
BigEndianAt(instruction, op, operands, i) ==
    LET at == OperandStart(op, i)
    IN IF operand_widths[op][i] = 1
       THEN instruction[at + 1] = operands[i]
       ELSE /\ instruction[at + 1] = operands[i] \div 256
            /\ instruction[at + 2] = operands[i] % 256

\* C33: the instruction made for an opcode of the definitions table and
\* operands that fit its widths is 1 + sum(operand_widths) bytes long, starts
\* with the opcode byte and holds each operand big-endian; read_operands on
\* the bytes after the opcode returns the same operands and the number of
\* bytes read, sum(operand_widths).
C33_EncodingRoundTrips ==
    LET op == encoding.op
        operands == encoding.operands
        instruction == encoding.instruction
    IN /\ encoding.step \in {"made", "read"} =>
            /\ Len(instruction) = 1 + operands_offset(op)
            /\ instruction[1] = Opcode[op]
            /\ \A i \in 1..Len(operands) :
                   BigEndianAt(instruction, op, operands, i)
       /\ encoding.step = "read" =>
            /\ encoding.read.operands = operands
            /\ encoding.read.offset = operands_offset(op)

\* OpClosure 65534 255 has been made and read back
C33_Witness ==
    /\ encoding.step = "read"
    /\ encoding.op = "OpClosure"
    /\ encoding.operands = <<65534, 255>>
    /\ encoding.instruction = <<Opcode["OpClosure"], 255, 254, 255>>


(***************************************************************************)
(* compiler.py: enter_scope, emit and leave_scope called one at a time,    *)
(* as test_compiler_scopes does                                            *)
(***************************************************************************)
\* how many scopes the compiler under test holds at most, the root included
MaxScopes == 2
\* how many instructions are emitted into one scope at most
MaxEmitted == 2

\* the opcodes emitted, those of test_compiler_scopes
ScopeOps == {"OpMul", "OpSub"}
\* the names defined in the table of a scope
ScopeNames == {"a"}

\* compiler.current_scope
current_scope(c) == c.scopes[c.scope_index + 1]
\* compiler.symbol_table
symbol_table(c) == c.tables[Len(c.tables)]

\* compiler = Compiler(); calls holds, for each scope entered and not yet
\* left, the compiler as it was before enter_scope; last is the latest call
ScopeInit ==
    /\ compiler = Compiler
    /\ calls = <<>>
    /\ last = NoStep
    /\ status = "scopes"
    /\ program = NoNode
    /\ evaluator = NoEvaluator
    /\ encoding = NoEncoding
    /\ prog = 1
    /\ compile_err = NoErr
    /\ symtabs = <<>>
    /\ constants = <<>>
    /\ stack = <<>>
    /\ sp = 0
    /\ globals = <<>>
    /\ frames = <<>>
    /\ frames_index = 0
    /\ err = NoErr

scope_vars == <<prog, compile_err, symtabs, status, program, evaluator,
                encoding, constants, stack, sp, globals, frames, frames_index,
                err>>

\* compiler.enter_scope()
EnterScope ==
    /\ Len(compiler.scopes) < MaxScopes
    /\ compiler' = enter_scope(compiler)
    /\ calls' = Append(calls, compiler)
    /\ last' = [op |-> "enter_scope", returned |-> <<>>, before |-> compiler]
    /\ UNCHANGED scope_vars

\* compiler.emit(op)
Emit ==
    \E op \in ScopeOps :
        /\ Len(current_instructions(compiler)) < MaxEmitted
        /\ compiler' = emit(compiler, op, <<>>)
        /\ last' = [op |-> "emit", returned |-> <<>>, before |-> compiler]
        /\ UNCHANGED <<calls, scope_vars>>

\* compiler.symbol_table.define(name)
ScopeDefine ==
    \E name \in ScopeNames :
        /\ name \notin DOMAIN symbol_table(compiler).store
        /\ compiler' = [compiler EXCEPT !.tables = define(@, Len(@), name)]
        /\ last' = [op |-> "define", returned |-> <<>>, before |-> compiler]
        /\ UNCHANGED <<calls, scope_vars>>

\* instructions = compiler.leave_scope()
LeaveScope ==
    /\ compiler.scope_index > 0
    /\ compiler' = leave_scope(compiler)
    /\ calls' = SubSeq(calls, 1, Len(calls) - 1)
    /\ last' = [op |-> "leave_scope",
                returned |-> current_instructions(compiler),
                before |-> compiler,
                entered |-> calls[Len(calls)]]
    /\ UNCHANGED scope_vars

ScopeNext == EnterScope \/ Emit \/ ScopeDefine \/ LeaveScope

ScopeSpec == ScopeInit /\ [][ScopeNext]_vars

(***************************************************************************)
(* Compilation scopes nest like a stack (a property of ScopeSpec)          *)
(***************************************************************************)
\* enter_scope has just been called on last.before
EnteredAsStack ==
    LET before == last.before
    IN /\ compiler.scope_index = before.scope_index + 1
       /\ current_scope(compiler) = CompilationScope
       /\ symbol_table(compiler) = SymbolTable
       /\ Len(compiler.tables) = Len(before.tables) + 1
       /\ compiler.tables[Len(compiler.tables) - 1] = symbol_table(before)

\* emit has just been called on last.before: only the buffer of the scope
\* that was current has changed
EmittedInside ==
    LET before == last.before
    IN /\ compiler.scope_index = before.scope_index
       /\ Len(compiler.scopes) = Len(before.scopes)
       /\ \A i \in 1..Len(before.scopes) :
              i # before.scope_index + 1 => compiler.scopes[i] = before.scopes[i]
       /\ Len(current_instructions(compiler)) = Len(current_instructions(before)) + 1
       /\ compiler.tables = before.tables

\* leave_scope has just been called on last.before, which was entered from
\* last.entered
LeftAsStack ==
    LET before == last.before
        entered == last.entered
    IN /\ last.returned = current_instructions(before)
       /\ compiler.scope_index = before.scope_index - 1
       /\ compiler.scope_index = entered.scope_index
       /\ symbol_table(compiler) = symbol_table(entered)
       /\ compiler.tables = entered.tables
       /\ current_scope(compiler).instructions = current_scope(entered).instructions
       /\ current_scope(compiler).last_instruction = current_scope(entered).last_instruction
       /\ current_scope(compiler).previous_instruction =
              current_scope(entered).previous_instruction
       /\ compiler.scopes = entered.scopes

\* C34: enter_scope increments scope_index, starts an empty buffer and a
\* fresh table whose outer is the table that was current; an instruction
\* emitted inside goes only to the inner buffer; leave_scope returns the
\* inner buffer, decrements scope_index and restores the symbol table, the
\* buffer, last_instruction and previous_instruction that were current
\* before enter_scope.
C34_ScopesNest ==
    /\ last.op = "enter_scope" => EnteredAsStack
    /\ last.op = "emit" => EmittedInside
    /\ last.op = "leave_scope" => LeftAsStack

\* a scope in which OpSub was emitted has been left for one that holds two
\* instructions and a table with a definition
C34_Witness ==
    /\ last.op = "leave_scope"
    /\ last.returned = make("OpSub", <<>>)
    /\ current_scope(compiler).last_instruction = EmittedInstruction("OpSub", 1)
    /\ current_scope(compiler).previous_instruction = EmittedInstruction("OpMul", 0)
    /\ "a" \in DOMAIN symbol_table(compiler).store
    /\ "a" \in DOMAIN symbol_table(last.before).store


(***************************************************************************)
(* The main frame (a property of Spec)                                     *)
(***************************************************************************)
\* the machine runs, or has run, a program that the compiler accepted
RunsCompiledProgram ==
    /\ program.type = "Program"
    /\ status \in {"running", "returned", "raised"}

\* C35: while the machine runs a program that the compiler accepted, a
\* top-level `return` included, frames_index is at least 1 and frames[0] is
\* the main frame: no OpReturnValue or OpReturn pops it.
C35_MainFrameStays ==
    RunsCompiledProgram =>
        /\ frames_index >= 1
        /\ frames[0] # PyNone
        /\ frames[0].fn = main_frame(prog).fn
        /\ frames[0].base_pointer = 0


(***************************************************************************)
(* Frames and the stack (a property of Spec)                               *)
(***************************************************************************)
\* the frames pushed by call_function and not yet popped
OpenCalls == 1..(frames_index - 1)

\* the step leaves the stack slots below the callee slot of frame k
BelowCalleeUnchanged(k) ==
    \A i \in 0..(frames[k].base_pointer - 2) : stack'[i] = stack[i]

\* the step, an OpSetLocal, writes the slot of a local of the current
\* function and no other slot
WritesOwnLocal ==
    LET frame == current_frame(Self)
    IN /\ Operand8 < frame.fn.num_locals
       /\ \A i \in 0..(STACK_SIZE - 1) :
              i # frame.base_pointer + Operand8 => stack'[i] = stack[i]

\* the step leaves every global that it is not an OpSetGlobal of
UntargetedGlobalsUnchanged ==
    \A g \in DOMAIN globals :
        ~(At({"OpSetGlobal"}) /\ Operand16 = g) =>
            g \in DOMAIN globals' /\ globals'[g] = globals[g]

\* C36: while called functions of a compiled program execute, a step leaves
\* the stack slots below the callee slot of every open call and the globals
\* it is not an OpSetGlobal of, and an OpSetLocal idx has idx < num_locals
\* and writes stack[base_pointer + idx] only.
C36_FrameIsolation ==
    [][(/\ program.type = "Program"
        /\ status = "running"
        /\ HasFrame
        /\ frames_index >= 2)
       => /\ \A k \in OpenCalls : BelowCalleeUnchanged(k)
          /\ At({"OpSetLocal"}) => WritesOwnLocal
          /\ UntargetedGlobalsUnchanged]_vars


(***************************************************************************)
(* The instruction set of the compiler and of the machine (a property of   *)
(* Spec)                                                                   *)
(***************************************************************************)
\* run is about to fetch a byte of a compiled program
AboutToFetch ==
    /\ program.type = "Program"
    /\ status = "running"
    /\ HasFrame
    /\ LoopCondition

\* the opcodes that a branch of run's if/elif chain matches
Dispatched ==
    DOMAIN Opcode \ {"OpGetBuiltin", "OpGetFree", "OpClosure", "OpCurrentClosure"}

\* C37: the byte that run fetches from a compiled program is the opcode byte
\* of an instruction, never an operand byte, and a branch of run dispatches
\* that opcode.
C37_SameInstructionSet ==
    AboutToFetch =>
        /\ Ip \in instruction_positions(Ins, 0)
        /\ ValidOpcode(CurByte)
        /\ OpName(CurByte) \in Dispatched


(***************************************************************************)
(* Free symbols and definitions of a table (a property of SymSpec)         *)
(***************************************************************************)
\* the symbols of scope Free in the store of table
FreeStored(table) ==
    {table.store[n] : n \in {m \in DOMAIN table.store :
                                 table.store[m].scope = FreeScope}}

\* table.free_symbols[s.index] is the symbol that s was promoted from
IndexesItsOriginal(table, s) ==
    /\ 0 <= s.index
    /\ s.index < Len(table.free_symbols)
    /\ table.free_symbols[s.index + 1].name = s.name
    /\ table.free_symbols[s.index + 1].scope \in {LocalScope, FreeScope, FunctionScope}

\* C38: in every table of the chain, a stored symbol of scope Free has an
\* index within free_symbols, where a symbol of the same name and of scope
\* Local, Free or Function is held, and num_definitions is the number of
\* define calls made on the table.
C38_FreeSymbolsConsistent ==
    \A k \in 1..Len(symtabs) :
        /\ \A s \in FreeStored(symtabs[k]) : IndexesItsOriginal(symtabs[k], s)
        /\ symtabs[k].num_definitions = calls[k]

\* a table stores a Free symbol promoted from a Free symbol of the table
\* around it, in a chain with a table on which define was called
C38_Witness ==
    /\ \E k \in 1..Len(symtabs) : \E s \in FreeStored(symtabs[k]) :
           symtabs[k].free_symbols[s.index + 1].scope = FreeScope
    /\ \E k \in 1..Len(symtabs) : calls[k] >= 1


(***************************************************************************)
(* Capture through two tables (a property of SymSpec)                      *)
(***************************************************************************)
\* symtabs[k] is nested in a table nested in a function table, and name is
\* Local in that function table and in the store of neither table inside it
LocalTwoTablesOut(k, name) ==
    /\ k >= 4
    /\ ~in_store(symtabs, k, name)
    /\ ~in_store(symtabs, k - 1, name)
    /\ in_store(symtabs, k - 2, name)
    /\ symtabs[k - 2].store[name].scope = LocalScope

\* name is in the store of neither symtabs[k] nor the table around it, and
\* the table around these resolves it to a Global
GlobalTwoTablesOut(k, name) ==
    /\ k >= 3
    /\ ~in_store(symtabs, k, name)
    /\ ~in_store(symtabs, k - 1, name)
    /\ resolve(symtabs, k - 2, name).symbol.scope = GlobalScope

\* symtabs[k].resolve(name) promotes name in the table around symtabs[k]
\* from the Local symbol, and in symtabs[k] from the Free symbol so made
PromotedInBoth(k, name) ==
    LET r == resolve(symtabs, k, name)
        T0 == symtabs[k - 2]
        T1 == r.tables[k - 1]
        T2 == r.tables[k]
    IN /\ T1.free_symbols = Append(symtabs[k - 1].free_symbols, T0.store[name])
       /\ T1.store[name] = Symbol(name, FreeScope, Len(symtabs[k - 1].free_symbols))
       /\ T2.free_symbols = Append(symtabs[k].free_symbols, T1.store[name])
       /\ T2.store[name] = Symbol(name, FreeScope, Len(symtabs[k].free_symbols))
       /\ r.symbol = T2.store[name]

\* symtabs[k].resolve(name) leaves both tables as they are
PromotedInNeither(k, name) ==
    LET r == resolve(symtabs, k, name)
    IN /\ r.tables[k - 1] = symtabs[k - 1]
       /\ r.tables[k] = symtabs[k]
       /\ r.symbol = resolve(symtabs, k - 2, name).symbol

\* C39: when a table nested in a table nested in a function table resolves
\* a name that is Local in the function table, the table in between gains
\* the Local symbol in free_symbols and stores a Free symbol, and the table
\* asked gains that Free symbol in free_symbols; a Global reached through
\* the same chain is promoted in neither table.
C39_CaptureIsTransitive ==
    \A k \in 1..Len(symtabs) : \A name \in SymNames :
        /\ LocalTwoTablesOut(k, name) => PromotedInBoth(k, name)
        /\ GlobalTwoTablesOut(k, name) => PromotedInNeither(k, name)

\* the innermost of four tables has resolved a name that is Local two
\* tables out: the table in between holds the Local symbol in free_symbols
\* and the innermost table holds the Free symbol of the table in between
C39_Witness ==
    /\ Len(symtabs) = 4
    /\ \E name \in DefNames :
          /\ in_store(symtabs, 2, name)
          /\ symtabs[2].store[name].scope = LocalScope
          /\ symtabs[3].free_symbols = <<symtabs[2].store[name]>>
          /\ in_store(symtabs, 3, name)
          /\ symtabs[4].free_symbols = <<symtabs[3].store[name]>>
          /\ in_store(symtabs, 4, name)
          /\ symtabs[4].store[name] = Symbol(name, FreeScope, 0)


(***************************************************************************)
(* The scope the compiler is left in (a property of CompileSpec)           *)
(***************************************************************************)
\* compile(program) has returned, with or without an error
CompileReturned == status \in {"compiled", "compile_error"}

\* C40: when compile(program) has returned, with or without an error,
\* scope_index is 0, the only scope is the main one and symbol_table is the
\* root table.
C40_ScopesBalanced ==
    CompileReturned =>
        /\ compiler.scope_index = 0
        /\ Len(compiler.scopes) = 1
        /\ Len(compiler.tables) = 1

====
